---- MODULE Spec2Model ----
(***************************************************************************)
(* memory-serve: static assets embedded in the binary (or read from disk   *)
(* in dynamic mode) and served through an axum Router.                     *)
(*                                                                         *)
(* Rust strings (&str, header values, routes) are sequences of             *)
(* one-character strings; byte slices are sequences of numbers 0..255.     *)
(* Option<T> is a record [some, v]; None carries the default value.        *)
(***************************************************************************)
EXTENDS Integers, Sequences, FiniteSets, TLC

VARIABLES
    pc,        \* "build", "config" (builder), "serving", "panicked"
    assets,    \* MemoryServe.assets: the manifest, a sequence of Asset
    options,   \* MemoryServe.options: ServeOptions
    aliases,   \* MemoryServe.aliases: sequence of <<from, to>>
    router,    \* the axum Router built by into_router
    leaked,    \* per asset, the byte forms leaked by Asset::leak_bytes
    disk,      \* the file system: source path -> Option<bytes>
    request,   \* the last GET: [path, headers]
    call,      \* the handler invocation that answered it
    response,  \* the response the client received
    probe,     \* the last direct call of supports_encoding
    build,     \* the build script: the directories it indexes and its results
    tasks      \* the requests in flight on the runtime's worker threads

vars == <<pc, assets, options, aliases, router, leaked, disk, request, call,
          response, probe, build, tasks>>

---------------------------------------------------------------------------
(* Option<T> *)

Some(x) == [some |-> TRUE, v |-> x]

NoneBytes == [some |-> FALSE, v |-> <<>>]

\* Option::unwrap_or_default for byte vectors, slices and strings
unwrap_or_default(o) == IF o.some THEN o.v ELSE <<>>

---------------------------------------------------------------------------
(* String literals of the program, its tests and the requests modelled *)

IndexHtml == <<"/", "i", "n", "d", "e", "x", ".", "h", "t", "m", "l">>
AboutHtml == <<"/", "a", "b", "o", "u", "t", ".", "h", "t", "m", "l">>
IconJpg == <<"/", "a", "s", "s", "e", "t", "s", "/", "i", "c", "o", "n", ".", "j", "p", "g">>
MissingHtml == <<"/", "m", "i", "s", "s", "i", "n", "g", ".", "h", "t", "m", "l">>
RootPath == <<"/">>
IndexClean == <<"/", "i", "n", "d", "e", "x">>
AboutClean == <<"/", "a", "b", "o", "u", "t">>
Foobar == <<"/", "f", "o", "o", "b", "a", "r">>
Baz == <<"/", "b", "a", "z">>
Barfoo == <<"/", "b", "a", "r", "f", "o", "o">>
DocsIndexHtml == <<"/", "d", "o", "c", "s", "/", "i", "n", "d", "e", "x", ".", "h", "t", "m", "l">>
DocsIndexClean == <<"/", "d", "o", "c", "s", "/", "i", "n", "d", "e", "x">>
DocsPath == <<"/", "d", "o", "c", "s">>

AeGzip == <<"g", "z", "i", "p">>
AeBr == <<"b", "r">>
AeFull == <<"b", "r", ";", "q", "=", "1", ".", "0", ",", " ", "g", "z", "i", "p", ";", "q", "=", "0", ".", "8", ",", " ", "*", ";", "q", "=", "0", ".", "1">>
AeIdentity == <<"i", "d", "e", "n", "t", "i", "t", "y">>
AeList == <<"g", "z", "i", "p", ",", " ", "c", "o", "m", "p", "r", "e", "s", "s", ",", " ", "b", "r">>
AeZeroBr == <<"b", "r", ";", "q", "=", "0", ".", "0">>
AeStarNoBr == <<"b", "r", ";", "q", "=", "0", ",", " ", "*">>
AeNoBr == <<"b", "r", ";", "q", "=", "0", ",", " ", "g", "z", "i", "p">>

\* asset.rs: const BROTLI_ENCODING / GZIP_ENCODING
BROTLI_ENCODING == <<"b", "r">>
GZIP_ENCODING == <<"g", "z", "i", "p">>

\* codings the unit test of supports_encoding also asks about
CompressCoding == <<"c", "o", "m", "p", "r", "e", "s", "s">>
ZstdCoding == <<"z", "s", "t", "d">>

\* s[from..] (1-based), the empty string when from is past the end
Drop(s, from) == SubSeq(s, from, Len(s))

\* str::ends_with
ends_with(s, suffix) ==
    /\ Len(suffix) <= Len(s)
    /\ SubSeq(s, Len(s) - Len(suffix) + 1, Len(s)) = suffix

\* is pattern pat at position i of s
MatchAt(s, pat, i) ==
    /\ i + Len(pat) - 1 <= Len(s)
    /\ SubSeq(s, i, i + Len(pat) - 1) = pat

---------------------------------------------------------------------------
(* File contents of the model *)

\* file contents: a large page of one repeated byte, a small page, a small
\* image, a large style sheet without runs, a later edit of the page, and
\* the small page of a subdirectory, a style sheet one byte short of
\* MIN_COMPRESS_SIZE and an image of that size
BigHtml == [i \in 1..130 |-> 60]
SmallHtml == <<60, 104, 49, 62>>
JpgBytes == <<255, 216, 255, 224, 16>>
BigCss == [i \in 1..128 |-> 97 + (i % 2)]
EditedHtml == [i \in 1..129 |-> 62]
DocsHtml == <<60, 100, 62>>
NearCss == [i \in 1..127 |-> 97]
BigJpg == [i \in 1..128 |-> 255]

ModelContents ==
    {BigHtml, SmallHtml, JpgBytes, BigCss, EditedHtml, DocsHtml, NearCss, BigJpg}

---------------------------------------------------------------------------
(* util/compression.rs.  The codecs are external crates; they are modelled *)
(* as lossless run-length codecs behind a one-byte magic number, so that   *)
(* the output differs from the input, may be shorter or longer than it,    *)
(* and decoding something that is not an encoding fails.                   *)

\* two run-length streams joined, the runs that meet merged
JoinRuns(x, y) ==
    IF x = <<>> THEN y
    ELSE IF y = <<>> THEN x
    ELSE IF x[Len(x)] = y[2]
    THEN SubSeq(x, 1, Len(x) - 2) \o <<x[Len(x) - 1] + y[1], y[2]>> \o Drop(y, 3)
    ELSE x \o y

\* the runs of b[lo..hi] as <<count, byte, count, byte, ..>>
RECURSIVE Runs(_, _, _)
Runs(b, lo, hi) ==
    IF lo > hi THEN <<>>
    ELSE IF lo = hi THEN <<1, b[lo]>>
    ELSE LET mid == (lo + hi) \div 2
         IN JoinRuns(Runs(b, lo, mid), Runs(b, mid + 1, hi))

\* the bytes of the runs lo..hi of the stream p
RECURSIVE Expand(_, _, _)
Expand(p, lo, hi) ==
    IF lo > hi THEN <<>>
    ELSE IF lo = hi THEN [k \in 1..p[2 * lo - 1] |-> p[2 * lo]]
    ELSE LET mid == (lo + hi) \div 2
         IN Expand(p, lo, mid) \o Expand(p, mid + 1, hi)

RunsWellFormed(p) ==
    /\ Len(p) % 2 = 0
    /\ \A i \in 1..Len(p) : (i % 2 = 1) => p[i] >= 1

\* the brotli stream of a byte string
BrotliStream(input) == <<206>> \o Runs(input, 1, Len(input))

\* the gzip stream of a byte string: magic, deflate stream, length trailer
GzipStream(input) == <<31>> \o Runs(input, 1, Len(input)) \o <<Len(input) % 256>>

\* the streams of the model's file contents, computed once
BrotliOf == [c \in ModelContents |-> BrotliStream(c)]
GzipOf == [c \in ModelContents |-> GzipStream(c)]

\* compress_brotli: never fails on an in-memory writer
compress_brotli(input) ==
    Some(IF input \in ModelContents THEN BrotliOf[input] ELSE BrotliStream(input))

\* decompress_brotli: None when the input is not a brotli stream
decompress_brotli(input) ==
    IF Len(input) >= 1 /\ input[1] = 206 /\ RunsWellFormed(Drop(input, 2))
    THEN Some(Expand(Drop(input, 2), 1, (Len(input) - 1) \div 2))
    ELSE NoneBytes

\* compress_gzip
compress_gzip(input) ==
    Some(IF input \in ModelContents THEN GzipOf[input] ELSE GzipStream(input))

---------------------------------------------------------------------------
(* sha256::digest: lowercase hex of a hash of the bytes.  The hash is a    *)
(* 16-bit tree hash; the file contents of the model do not collide.        *)

HexDigit(n) ==
    <<"0", "1", "2", "3", "4", "5", "6", "7", "8", "9", "a", "b", "c", "d", "e", "f">>[n + 1]

RECURSIVE TreeHash(_, _, _)
TreeHash(b, lo, hi) ==
    IF lo > hi THEN 7
    ELSE IF lo = hi THEN (b[lo] * 251 + 11) % 65536
    ELSE LET mid == (lo + hi) \div 2
         IN (TreeHash(b, lo, mid) * 31 + TreeHash(b, mid + 1, hi) * 17 + hi) % 65536

\* lowercase hex of a 16-bit hash
Hex(h) ==
    <<HexDigit(h \div 4096), HexDigit((h \div 256) % 16),
      HexDigit((h \div 16) % 16), HexDigit(h % 16)>>

HexHash(b) == Hex(TreeHash(b, 1, Len(b)))

\* the digests of the model's file contents, computed once
DigestOf == [c \in ModelContents |-> HexHash(c)]

digest(b) == IF b \in ModelContents THEN DigestOf[b] ELSE HexHash(b)

---------------------------------------------------------------------------
(* util/headers.rs *)

\* bytes 0x80..0xFF (obs-text) are legal in a HeaderValue but are not
\* visible ASCII: the pseudo-character "0xFF" stands for one of them
ObsText == {"0xFF"}

Whitespace == {" ", "\t"}

\* HeaderValue::to_str: Err unless every byte is visible ASCII or a tab
to_str(v) ==
    IF \E i \in 1..Len(v) : v[i] \in ObsText THEN NoneBytes ELSE Some(v)

\* str::split_whitespace().collect::<String>()
RECURSIVE StripWhitespace(_)
StripWhitespace(s) ==
    IF s = <<>> THEN <<>>
    ELSE IF Head(s) \in Whitespace THEN StripWhitespace(Tail(s))
    ELSE <<Head(s)>> \o StripWhitespace(Tail(s))

\* str::split(','): the items between the commas, at least one
RECURSIVE SplitComma(_, _, _)
SplitComma(s, i, cur) ==
    IF i > Len(s) THEN <<cur>>
    ELSE IF s[i] = "," THEN <<cur>> \o SplitComma(s, i + 1, <<>>)
    ELSE SplitComma(s, i + 1, Append(cur, s[i]))

\* position of the first ";q=" in item at or after i, 0 if there is none
RECURSIVE FindQ(_, _)
FindQ(item, i) ==
    IF i + 2 > Len(item) THEN 0
    ELSE IF MatchAt(item, <<";", "q", "=">>, i) THEN i
    ELSE FindQ(item, i + 1)

\* item.splitn(2, ";q="): one part, or the parts around the first ";q="
splitn2(item) ==
    LET k == FindQ(item, 1)
    IN IF k = 0 THEN <<item>>
       ELSE <<SubSeq(item, 1, k - 1), Drop(item, k + 3)>>

\* faulty variant: any quality value starting with 0 excludes the token
AcceptedName_prefix(item) ==
    LET parts == splitn2(item)
    IN IF Len(parts) = 2 /\ Len(parts[2]) >= 1 /\ parts[2][1] = "0"
       THEN NoneBytes ELSE Some(parts[1])

\* the filter_map closure: None for a token with quality exactly "0"
AcceptedName(item) ==
    LET parts == splitn2(item)
    IN IF Len(parts) = 2 /\ parts[2] = <<"0">> THEN NoneBytes ELSE Some(parts[1])

\* supports_encoding(headers, encoding); headers.accept_encoding is
\* headers.get(ACCEPT_ENCODING)
supports_encoding(headers, encoding) ==
    LET header_value == IF headers.accept_encoding.some
                        THEN to_str(headers.accept_encoding.v)
                        ELSE NoneBytes
    IN IF ~header_value.some THEN FALSE
       ELSE LET items == SplitComma(StripWhitespace(header_value.v), 1, <<>>)
            IN \E i \in 1..Len(items) :
                   LET n == AcceptedName(items[i])
                   IN n.some /\ (n.v = encoding \/ n.v = <<"*">>)

\* content_length(len): the Content-Length value, kept as the number
content_length(len) == len

---------------------------------------------------------------------------
(* The directory indexed at build time (build/list.rs, build/code.rs) *)

\* options.rs: MIN_COMPRESS_SIZE
MIN_COMPRESS_SIZE == 128

\* options.rs: COMPRESS_TYPES
COMPRESS_TYPES ==
    {"text/html", "text/css", "application/json", "text/javascript",
     "application/javascript", "application/xml", "text/xml", "image/svg+xml",
     "application/wasm"}

\* the files under the asset directory when the build script runs, in
\* ascending route order; route and content_type are what path_to_route
\* and path_to_content_type give for them
SourceFiles ==
    << [route |-> AboutHtml, path |-> "static/about.html",
        content_type |-> "text/html", bytes |-> SmallHtml],
       [route |-> IconJpg, path |-> "static/assets/icon.jpg",
        content_type |-> "image/jpeg", bytes |-> JpgBytes],
       [route |-> DocsIndexHtml, path |-> "static/docs/index.html",
        content_type |-> "text/html", bytes |-> DocsHtml],
       [route |-> IndexHtml, path |-> "static/index.html",
        content_type |-> "text/html", bytes |-> BigHtml],
       [route |-> <<"/", "s", ".", "c", "s", "s">>, path |-> "static/s.css",
        content_type |-> "text/css", bytes |-> BigCss] >>

StyleCss == SourceFiles[5].route

SourcePaths == {SourceFiles[i].path : i \in 1..Len(SourceFiles)}

\* faulty variant: should_compress looks at the size only
file_asset_any_type(f, embed, debug) ==
    LET should_compress == Len(f.bytes) >= MIN_COMPRESS_SIZE
    IN IF ~embed
       THEN [route |-> f.route, path |-> f.path, content_type |-> f.content_type,
             etag |-> <<>>, compressed_bytes |-> NoneBytes,
             should_compress |-> should_compress]
       ELSE LET enable_compression == embed /\ should_compress /\ ~debug
            IN [route |-> f.route, path |-> f.path,
                content_type |-> f.content_type,
                etag |-> digest(f.bytes),
                compressed_bytes |-> IF enable_compression
                                     THEN compress_brotli(f.bytes)
                                     ELSE NoneBytes,
                should_compress |-> should_compress]

\* list_assets, per entry: the FileAsset of a regular, non-empty file with
\* an extension.  debug is cfg!(debug_assertions) of the build.
file_asset(f, embed, debug) ==
    LET should_compress == /\ f.content_type \in COMPRESS_TYPES
                           /\ Len(f.bytes) >= MIN_COMPRESS_SIZE
    IN IF ~embed
       THEN [route |-> f.route, path |-> f.path, content_type |-> f.content_type,
             etag |-> <<>>, compressed_bytes |-> NoneBytes,
             should_compress |-> should_compress]
       ELSE LET enable_compression == embed /\ should_compress /\ ~debug
            IN [route |-> f.route, path |-> f.path,
                content_type |-> f.content_type,
                etag |-> digest(f.bytes),
                compressed_bytes |-> IF enable_compression
                                     THEN compress_brotli(f.bytes)
                                     ELSE NoneBytes,
                should_compress |-> should_compress]

\* assets_to_code, per FileAsset: the memory_serve::Asset literal, with
\* include_bytes! resolved (the compressed copy, or the source file)
asset_code(fa, embed, source_bytes) ==
    [route |-> fa.route, path |-> fa.path, content_type |-> fa.content_type,
     etag |-> fa.etag,
     bytes |-> IF ~embed THEN NoneBytes
               ELSE IF fa.compressed_bytes.some THEN Some(fa.compressed_bytes.v)
               ELSE Some(source_bytes),
     is_compressed |-> fa.compressed_bytes.some,
     should_compress |-> fa.should_compress]

\* the manifest load!() hands to MemoryServe::new
Manifest(embed, debug) ==
    [i \in 1..Len(SourceFiles) |->
        asset_code(file_asset(SourceFiles[i], embed, debug), embed,
                   SourceFiles[i].bytes)]

\* a second directory: a page docs.html next to the subdirectory docs/
\* with its own index page, in ascending route order
DocsHtmlRoute == <<"/", "d", "o", "c", "s", ".", "h", "t", "m", "l">>

SiteFiles ==
    << [route |-> DocsHtmlRoute, path |-> "site/docs.html",
        content_type |-> "text/html", bytes |-> SmallHtml],
       [route |-> DocsIndexHtml, path |-> "site/docs/index.html",
        content_type |-> "text/html", bytes |-> DocsHtml],
       [route |-> IndexHtml, path |-> "site/index.html",
        content_type |-> "text/html", bytes |-> BigHtml] >>

\* the manifest load!() hands to MemoryServe::new for that directory
SiteManifest(embed, debug) ==
    [i \in 1..Len(SiteFiles) |->
        asset_code(file_asset(SiteFiles[i], embed, debug), embed,
                   SiteFiles[i].bytes)]

---------------------------------------------------------------------------
(* util/route.rs *)

\* the printable ASCII characters in code order, from the space (32) on
\* (the grave accent, 96, is written "grave")
Ascii ==
    << " ", "!", "\"", "#", "$", "%", "&", "'", "(", ")", "*", "+",
       ",", "-", ".", "/", "0", "1", "2", "3", "4", "5", "6", "7",
       "8", "9", ":", ";", "<", "=", ">", "?", "@", "A", "B", "C",
       "D", "E", "F", "G", "H", "I", "J", "K", "L", "M", "N", "O",
       "P", "Q", "R", "S", "T", "U", "V", "W", "X", "Y", "Z", "[",
       "\\", "]", "^", "_", "grave", "a", "b", "c", "d", "e", "f", "g",
       "h", "i", "j", "k", "l", "m", "n", "o", "p", "q", "r", "s",
       "t", "u", "v", "w", "x", "y", "z", "{", "|", "}", "~" >>

\* the characters of the model that are not ASCII
Eacute == "e-acute"
PileOfPoo == "pile-of-poo"

\* the UTF-8 bytes of a character
Utf8(c) ==
    IF c = Eacute THEN <<195, 169>>
    ELSE IF c = PileOfPoo THEN <<240, 159, 146, 169>>
    ELSE <<31 + CHOOSE k \in 1..Len(Ascii) : Ascii[k] = c>>

HexUpper(n) ==
    <<"0", "1", "2", "3", "4", "5", "6", "7", "8", "9", "A", "B", "C", "D", "E", "F">>[n + 1]

\* urlencoding: the characters left as they are
Unreserved ==
    {"-", ".", "0", "1", "2", "3", "4", "5", "6", "7", "8", "9", "A",
     "B", "C", "D", "E", "F", "G", "H", "I", "J", "K", "L", "M", "N",
     "O", "P", "Q", "R", "S", "T", "U", "V", "W", "X", "Y", "Z", "_",
     "a", "b", "c", "d", "e", "f", "g", "h", "i", "j", "k", "l", "m",
     "n", "o", "p", "q", "r", "s", "t", "u", "v", "w", "x", "y", "z",
     "~"}

\* urlencoding: the bytes from position k on as %XX
RECURSIVE PercentBytes(_, _)
PercentBytes(bytes, k) ==
    IF k > Len(bytes) THEN <<>>
    ELSE <<"%", HexUpper(bytes[k] \div 16), HexUpper(bytes[k] % 16)>>
             \o PercentBytes(bytes, k + 1)

\* urlencoding::encode from position k on
RECURSIVE encode(_, _)
encode(str, k) ==
    IF k > Len(str) THEN <<>>
    ELSE (IF str[k] \in Unreserved THEN <<str[k]>> ELSE PercentBytes(Utf8(str[k]), 1))
             \o encode(str, k + 1)

\* str::replace from position k on: the matches of from, left to right and
\* not overlapping, become to
RECURSIVE replace(_, _, _, _)
replace(str, from, to, k) ==
    IF k > Len(str) THEN <<>>
    ELSE IF MatchAt(str, from, k) THEN to \o replace(str, from, to, k + Len(from))
    ELSE <<str[k]>> \o replace(str, from, to, k + 1)

\* const ALLOWED_CHARS, in the order of the array
ALLOWED_CHARS ==
    << << <<"%", "2", "F">>, <<"/">> >>,
       << <<"%", "5", "C">>, <<"\\">> >>,
       << <<"%", "2", "1">>, <<"!">> >>,
       << <<"%", "2", "A">>, <<"*">> >>,
       << <<"%", "2", "7">>, <<"'">> >>,
       << <<"%", "2", "8">>, <<"(">> >>,
       << <<"%", "2", "9">>, <<")">> >>,
       << <<"%", "3", "B">>, <<";">> >>,
       << <<"%", "3", "A">>, <<":">> >>,
       << <<"%", "4", "0">>, <<"@">> >>,
       << <<"%", "2", "6">>, <<"&">> >>,
       << <<"%", "3", "D">>, <<"=">> >>,
       << <<"%", "2", "B">>, <<"+">> >>,
       << <<"%", "2", "4">>, <<"$">> >>,
       << <<"%", "2", "C">>, <<",">> >>,
       << <<"%", "3", "F">>, <<"?">> >>,
       << <<"%", "2", "5">>, <<"%">> >>,
       << <<"%", "5", "B">>, <<"[">> >>,
       << <<"%", "5", "D">>, <<"]">> >> >>

\* for (from, to) in ALLOWED_CHARS { route = route.replace(from, to) },
\* from the pair n on
RECURSIVE RestoreAllowed(_, _)
RestoreAllowed(route, n) ==
    IF n > Len(ALLOWED_CHARS) THEN route
    ELSE RestoreAllowed(replace(route, ALLOWED_CHARS[n][1], ALLOWED_CHARS[n][2], 1),
                        n + 1)

\* Vec<&str>::join("/") from the component k on
RECURSIVE JoinComponents(_, _)
JoinComponents(components, k) ==
    IF k > Len(components) THEN <<>>
    ELSE IF k = Len(components) THEN components[k]
    ELSE components[k] \o <<"/">> \o JoinComponents(components, k + 1)

\* path_to_route, of the normal components of the path below the base
path_to_route(components) ==
    <<"/">> \o RestoreAllowed(encode(JoinComponents(components, 1), 1), 1)

\* Path::extension of a file name: what follows the last "." unless the
\* name has none or only begins with one
Extension(name) ==
    IF \E k \in 2..Len(name) : name[k] = "."
    THEN Some(Drop(name, 1 + CHOOSE k \in 2..Len(name) :
                              /\ name[k] = "."
                              /\ \A m \in (k + 1)..Len(name) : name[m] # "."))
    ELSE NoneBytes

\* mime_guess::from_ext(ext).first_raw() for the extensions of the model
MimeGuess(ext) ==
    CASE ext = <<"h", "t", "m", "l">> -> Some("text/html")
      [] ext = <<"c", "s", "s">> -> Some("text/css")
      [] ext = <<"j", "s">> -> Some("text/javascript")
      [] ext = <<"j", "p", "g">> -> Some("image/jpeg")
      [] ext = <<"s", "v", "g">> -> Some("image/svg+xml")
      [] OTHER -> [some |-> FALSE, v |-> ""]

\* path_to_content_type: None without an extension, the guessed type or
\* application/octet-stream with one
path_to_content_type(components) ==
    IF components = <<>> \/ ~Extension(components[Len(components)]).some
    THEN [some |-> FALSE, v |-> ""]
    ELSE IF MimeGuess(Extension(components[Len(components)]).v).some
    THEN MimeGuess(Extension(components[Len(components)]).v)
    ELSE Some("application/octet-stream")

---------------------------------------------------------------------------
(* build/list.rs, build/file_asset.rs: the indexing pipeline *)

\* an entry the walk yields
Entry(path, is_file, bytes) ==
    [path |-> path, metadata |-> TRUE, is_file |-> is_file, readable |-> TRUE,
     bytes |-> bytes]

DocsDir == <<"d", "o", "c", "s">>
IndexHtmlName == <<"i", "n", "d", "e", "x", ".", "h", "t", "m", "l">>

\* the entries directories are made of: a subdirectory and a page in it, a
\* page of the same name at the top, a style sheet brotli does not shrink,
\* an empty page, a file without extension, one with an unknown extension,
\* a page that cannot be read, an entry without metadata, and two style
\* sheets named "%5D.css" and "].css", a style sheet of 127 bytes and an
\* image of 128
EntryUniverse ==
    {Entry(<<DocsDir>>, FALSE, <<>>),
     Entry(<<DocsDir, IndexHtmlName>>, TRUE, BigHtml),
     Entry(<<IndexHtmlName>>, TRUE, EditedHtml),
     Entry(<<<<"a", ".", "c", "s", "s">>>>, TRUE, BigCss),
     Entry(<<<<"e", ".", "h", "t", "m", "l">>>>, TRUE, <<>>),
     Entry(<<<<"L", "I", "C", "E", "N", "S", "E">>>>, TRUE, SmallHtml),
     Entry(<<<<"x", ".", "b", "i", "n">>>>, TRUE, JpgBytes),
     [Entry(<<<<"s", ".", "h", "t", "m", "l">>>>, TRUE, SmallHtml)
        EXCEPT !.readable = FALSE],
     [Entry(<<<<"m", ".", "h", "t", "m", "l">>>>, TRUE, SmallHtml)
        EXCEPT !.metadata = FALSE],
     Entry(<<<<"%", "5", "D", ".", "c", "s", "s">>>>, TRUE, DocsHtml),
     Entry(<<<<"]", ".", "c", "s", "s">>>>, TRUE, SmallHtml),
     Entry(<<<<"t", ".", "c", "s", "s">>>>, TRUE, NearCss),
     Entry(<<<<"y", ".", "j", "p", "g">>>>, TRUE, BigJpg)}

\* the routes and content types of those entries, computed once
RouteOf == [p \in {e.path : e \in EntryUniverse} |-> path_to_route(p)]
ContentTypeOf == [p \in {e.path : e \in EntryUniverse} |-> path_to_content_type(p)]

NoFileAsset ==
    [some |-> FALSE,
     v |-> [route |-> <<>>, path |-> <<>>, content_type |-> "", etag |-> <<>>,
            compressed_bytes |-> NoneBytes, should_compress |-> FALSE]]

\* what file_asset is given for a walked entry
EntryFile(e) ==
    [route |-> RouteOf[e.path], path |-> e.path,
     content_type |-> ContentTypeOf[e.path].v, bytes |-> e.bytes]

\* faulty variant: an empty file is indexed like any other
list_entry_keeps_empty(e, embed, debug) ==
    IF ~e.metadata THEN NoFileAsset
    ELSE IF ~e.is_file THEN NoFileAsset
    ELSE IF ~ContentTypeOf[e.path].some THEN NoFileAsset
    ELSE IF embed /\ ~e.readable THEN NoFileAsset
    ELSE Some(file_asset(EntryFile(e), embed, debug))

\* list_assets, the filter_map closure on one entry of the walk: the
\* entry's metadata can be read or not (metadata), it is a regular file or
\* not (is_file), its size is that of its contents (bytes), and fs::read
\* gives them or fails (readable)
list_entry(e, embed, debug) ==
    IF ~e.metadata THEN NoFileAsset
    ELSE IF ~e.is_file THEN NoFileAsset
    ELSE IF Len(e.bytes) = 0 THEN NoFileAsset
    ELSE IF ~ContentTypeOf[e.path].some THEN NoFileAsset
    ELSE IF embed /\ ~e.readable THEN NoFileAsset
    ELSE Some(file_asset(EntryFile(e), embed, debug))

\* .filter_map(..).collect() over the walk, from the entry k on
RECURSIVE Collect(_, _, _, _)
Collect(walk, k, embed, debug) ==
    IF k > Len(walk) THEN <<>>
    ELSE (IF list_entry(walk[k], embed, debug).some
          THEN <<list_entry(walk[k], embed, debug).v>>
          ELSE <<>>) \o Collect(walk, k + 1, embed, debug)

\* the code of an ASCII character
Code(c) == CHOOSE k \in 1..Len(Ascii) : Ascii[k] = c

\* str::cmp(a, b) == Less: a is a proper prefix of b, or smaller at the
\* first byte they differ in
StrLess(a, b) ==
    \E k \in 1..(Len(a) + 1) :
        /\ k <= Len(b)
        /\ SubSeq(a, 1, k - 1) = SubSeq(b, 1, k - 1)
        /\ (k = Len(a) + 1 \/ Code(a[k]) < Code(b[k]))

\* impl Ord for FileAsset: by route only
FileAssetLess(x, y) == StrLess(x.route, y.route)

InsertAt(sorted, x, n) ==
    SubSeq(sorted, 1, n) \o <<x>> \o SubSeq(sorted, n + 1, Len(sorted))

\* x put behind the elements that are not greater than it
InsertSorted(sorted, x) ==
    InsertAt(sorted, x,
             Cardinality({k \in 1..Len(sorted) : ~FileAssetLess(x, sorted[k])}))

\* Vec::sort of the first n elements: stable, equal elements stay in the
\* order they were collected in
RECURSIVE sort(_, _)
sort(list, n) ==
    IF n = 0 THEN <<>> ELSE InsertSorted(sort(list, n - 1), list[n])

\* faulty variant: the list is returned as collected
list_assets_unsorted(walk, embed, debug) == Collect(walk, 1, embed, debug)

\* list_assets
list_assets(walk, embed, debug) ==
    sort(Collect(walk, 1, embed, debug), Len(Collect(walk, 1, embed, debug)))

\* entries of a directory tree: at most MaxEntries, every entry below a
\* subdirectory together with that subdirectory
MaxEntries == 3

Trees ==
    {t \in SUBSET EntryUniverse :
        /\ Cardinality(t) <= MaxEntries
        /\ \A e \in t : Len(e.path) > 1 =>
              \E d \in t : ~d.is_file /\ d.path = SubSeq(e.path, 1, Len(e.path) - 1)}

\* the orders WalkDir may yield a tree in: any, a directory before what is
\* in it
Walks(t) ==
    {w \in [1..Cardinality(t) -> t] :
        /\ \A i, j \in 1..Cardinality(t) : w[i] = w[j] => i = j
        /\ \A i \in 1..Cardinality(t) : Len(w[i].path) > 1 =>
              \E j \in 1..(i - 1) :
                  w[j].path = SubSeq(w[i].path, 1, Len(w[i].path) - 1)}

\* the build script before it has run
NoBuild ==
    [tree |-> {}, debug |-> FALSE, walk |-> <<>>, runs |-> <<>>,
     file |-> <<>>, route |-> NoneBytes,
     script |-> "", out_dir |-> <<>>, store |-> <<>>, load |-> "", title |-> ""]

\* characters of a file name
MaxNameLen == 3

NameChars == {"a", " ", "%", "5", "D", "]", "^", Eacute}

FileNames == UNION {[1..n -> NameChars] : n \in 1..MaxNameLen}

\* the files path_to_route is given: a name at the top of the base
\* directory or in its subdirectory docs
FilePaths == {<<n>> : n \in FileNames} \cup {<<DocsDir, n>> : n \in FileNames}

---------------------------------------------------------------------------
(* build/code.rs, build/mod.rs, load.rs and the build script build.rs *)

\* the asset directories a build script is pointed at: one with two pages
\* of the same file name, one whose page has the contents of a page of the
\* first, and an empty one
WwwDir == <<"w", "w", "w">>
DocDir == <<"d", "o", "c">>
NilDir == <<"n", "i", "l">>
OutDir == <<"o", "u", "t">>

AssetDirs ==
    (WwwDir :> {Entry(<<DocsDir>>, FALSE, <<>>),
                Entry(<<DocsDir, IndexHtmlName>>, TRUE, BigHtml),
                Entry(<<IndexHtmlName>>, TRUE, EditedHtml)})
    @@ (DocDir :> {Entry(<<IndexHtmlName>>, TRUE, BigHtml),
                   Entry(<<<<"a", ".", "c", "s", "s">>>>, TRUE, BigCss)})
    @@ (NilDir :> {})

\* the orders in which WalkDir may yield each directory
DirWalks ==
    {w \in [DOMAIN AssetDirs -> UNION {Walks(AssetDirs[d]) : d \in DOMAIN AssetDirs}] :
        \A d \in DOMAIN AssetDirs : w[d] \in Walks(AssetDirs[d])}

\* std::fs::write(out_dir.join(name), bytes)
Write(out, name, bytes) ==
    [n \in DOMAIN out \cup {name} |-> IF n = name THEN bytes ELSE out[n]]

\* assets_to_code, the loop: the compressed copy of an embedded asset is
\* written to out_dir.join(&etag), from the k-th asset on
RECURSIVE WriteByEtag(_, _, _, _)
WriteByEtag(out, listed, k, embed) ==
    IF k > Len(listed) THEN out
    ELSE WriteByEtag(IF embed /\ listed[k].compressed_bytes.some
                     THEN Write(out, listed[k].etag, listed[k].compressed_bytes.v)
                     ELSE out,
                     listed, k + 1, embed)

\* assets_to_code, the literal written for one FileAsset: bytes names the
\* file include_bytes! will read, path is the path below the canonical
\* asset directory
AssetLiteral(fa, dir, embed) ==
    [route |-> fa.route, path |-> <<dir>> \o fa.path,
     content_type |-> fa.content_type, etag |-> fa.etag,
     bytes |-> IF ~embed THEN NoneBytes
               ELSE IF fa.compressed_bytes.some THEN Some(<<OutDir, fa.etag>>)
               ELSE Some(<<dir>> \o fa.path),
     is_compressed |-> fa.compressed_bytes.some,
     should_compress |-> fa.should_compress]

\* assets_to_code on the list list_assets returned: the code of the group
\* and OUT_DIR afterwards
AssetsToCode(listed, name, dir, out, embed) ==
    [group |-> [name |-> name, embed |-> embed, listed |-> listed,
                code |-> [k \in 1..Len(listed) |->
                             AssetLiteral(listed[k], dir, embed)]],
     out_dir |-> WriteByEtag(out, listed, 1, embed)]

assets_to_code(name, dir, walk, out, embed, debug) ==
    AssetsToCode(list_assets(walk, embed, debug), name, dir, out, embed)

\* load_names_directories, the loop over named_paths from the k-th pair
\* on: the groups in the order given, and OUT_DIR
RECURSIVE NamedGroups(_, _, _, _, _, _)
AddGroup(done, named_paths, k, walks, embed, debug) ==
    NamedGroups(named_paths, k + 1, walks, embed, debug,
                [store |-> Append(done.store, done.last.group),
                 out_dir |-> done.last.out_dir])

NamedGroups(named_paths, k, walks, embed, debug, done) ==
    IF k > Len(named_paths) THEN [store |-> done.store, out_dir |-> done.out_dir]
    ELSE AddGroup([store |-> done.store,
                   last |-> assets_to_code(named_paths[k].name, named_paths[k].dir,
                                           walks[named_paths[k].dir],
                                           done.out_dir, embed, debug)],
                  named_paths, k, walks, embed, debug)

\* build.rs (the build script of the crate), list_assets per entry: no
\* percent-encoding of the route, brotli whenever the type is compressible,
\* kept only when smaller than the file
asset_build_rs(e, embed) ==
    [route |-> <<"/">> \o JoinComponents(e.path, 1), path |-> e.path,
     content_type |-> ContentTypeOf[e.path].v,
     etag |-> IF embed THEN digest(e.bytes) ELSE <<>>,
     compressed_bytes |->
        IF /\ embed
           /\ ContentTypeOf[e.path].v \in COMPRESS_TYPES
           /\ compress_brotli(e.bytes).some
           /\ Len(compress_brotli(e.bytes).v) < Len(e.bytes)
        THEN compress_brotli(e.bytes)
        ELSE NoneBytes]

\* build.rs, list_assets: the same skips, then the sort by route
RECURSIVE Collect_build_rs(_, _, _)
Collect_build_rs(walk, k, embed) ==
    IF k > Len(walk) THEN <<>>
    ELSE (IF list_entry(walk[k], embed, FALSE).some
          THEN <<asset_build_rs(walk[k], embed)>>
          ELSE <<>>) \o Collect_build_rs(walk, k + 1, embed)

list_assets_build_rs(walk, embed) ==
    sort(Collect_build_rs(walk, 1, embed), Len(Collect_build_rs(walk, 1, embed)))

\* build.rs include_directory, the loop: the compressed copy is written to
\* out_dir.join(path.file_name())
RECURSIVE WriteByFileName(_, _, _, _)
WriteByFileName(out, listed, k, embed) ==
    IF k > Len(listed) THEN out
    ELSE WriteByFileName(
             IF embed /\ listed[k].compressed_bytes.some
             THEN Write(out, listed[k].path[Len(listed[k].path)],
                        listed[k].compressed_bytes.v)
             ELSE out,
             listed, k + 1, embed)

\* build.rs include_directory, the literal written for one Asset
AssetLiteral_build_rs(a, dir, embed) ==
    [route |-> a.route, path |-> <<dir>> \o a.path,
     content_type |-> a.content_type, etag |-> a.etag,
     bytes |-> IF ~embed THEN NoneBytes
               ELSE IF a.compressed_bytes.some
               THEN Some(<<OutDir, a.path[Len(a.path)]>>)
               ELSE Some(<<dir>> \o a.path),
     is_compressed |-> a.compressed_bytes.some]

IncludeDirectory(listed, name, dir, out, embed) ==
    [group |-> [name |-> name, embed |-> embed, listed |-> listed,
                code |-> [k \in 1..Len(listed) |->
                             AssetLiteral_build_rs(listed[k], dir, embed)]],
     out_dir |-> WriteByFileName(out, listed, 1, embed)]

include_directory(name, dir, walk, out, embed) ==
    IncludeDirectory(list_assets_build_rs(walk, embed), name, dir, out, embed)

\* build.rs main, the loop over the ASSET_DIR variables of the environment
RECURSIVE EnvGroups(_, _, _, _, _)
AddEnvGroup(done, env, k, walks, embed) ==
    EnvGroups(env, k + 1, walks, embed,
              [store |-> Append(done.store, done.last.group),
               out_dir |-> done.last.out_dir])

EnvGroups(env, k, walks, embed, done) ==
    IF k > Len(env) THEN [store |-> done.store, out_dir |-> done.out_dir]
    ELSE AddEnvGroup([store |-> done.store,
                      last |-> include_directory(env[k].name, env[k].dir,
                                                 walks[env[k].dir],
                                                 done.out_dir, embed)],
                     env, k, walks, embed)

\* include_bytes!(file) when the crate is compiled, after the build script
\* has finished: the file of OUT_DIR, or the source file
include_bytes(file, out) ==
    IF file[1] = OutDir THEN out[file[2]]
    ELSE (CHOOSE e \in AssetDirs[file[1]] : e.path = Tail(file)).bytes

\* include!(.../memory_serve_assets.rs), one Asset of it
Included(literal, out) ==
    [literal EXCEPT !.bytes = IF literal.bytes.some
                              THEN Some(include_bytes(literal.bytes.v, out))
                              ELSE NoneBytes]

IncludedGroup(group, out) ==
    [k \in 1..Len(group.code) |-> Included(group.code[k], out)]

\* the names a group is given, and the pairs of name and directory
MaxGroups == 3
GroupNames == {"default", "docs"}
NamedPaths ==
    UNION {[1..n -> [name : GroupNames, dir : DOMAIN AssetDirs]] : n \in 0..MaxGroups}

\* the titles load!(title) is called with: those names and one never given
Titles == GroupNames \cup {"admin"}

---------------------------------------------------------------------------
(* cache_control.rs, options.rs *)

CacheControlLong == [kind |-> "Long", custom |-> ""]
CacheControlMedium == [kind |-> "Medium", custom |-> ""]
CacheControlShort == [kind |-> "Short", custom |-> ""]
CacheControlNoCache == [kind |-> "NoCache", custom |-> ""]
CacheControlCustom(s) == [kind |-> "Custom", custom |-> s]

\* CacheControl::as_header: the Cache-Control value
as_header(c) ==
    CASE c.kind = "Long" -> "max-age=31536000, immutable"
      [] c.kind = "Medium" -> "max-age=604800, stale-while-revalidate=86400"
      [] c.kind = "Short" -> "max-age:300, private"
      [] c.kind = "NoCache" -> "no-cache"
      [] c.kind = "Custom" -> c.custom

NoRoute == [some |-> FALSE, v |-> <<>>]

\* impl Default for ServeOptions
DefaultOptions(debug) ==
    [index_file |-> Some(IndexHtml),
     index_on_subdirectories |-> FALSE,
     fallback |-> NoRoute,
     fallback_status |-> 404,
     html_cache_control |-> CacheControlShort,
     cache_control |-> CacheControlMedium,
     enable_brotli |-> ~debug,
     enable_gzip |-> ~debug,
     enable_clean_url |-> FALSE]

---------------------------------------------------------------------------
(* asset.rs *)

\* request headers the engine reads: If-None-Match and Accept-Encoding
NoHeader == [some |-> FALSE, v |-> <<>>]

\* a response: status, header map and body
Response(status, headers, body) ==
    [status |-> status, headers |-> headers, body |-> body]

\* a map with no entries
EmptyMap == [x \in {} |-> 0]

\* StatusCode::into_response: no headers, empty body
StatusResponse(status) == Response(status, EmptyMap, <<>>)

\* faulty variant: the policies of HTML and of other files swapped
cache_control_swapped(asset, opts) ==
    IF asset.content_type = "text/html"
    THEN as_header(opts.cache_control)
    ELSE as_header(opts.html_cache_control)

\* Asset::cache_control
cache_control(asset, opts) ==
    IF asset.content_type = "text/html"
    THEN as_header(opts.html_cache_control)
    ELSE as_header(opts.cache_control)

\* Asset::content_type
content_type(asset) == asset.content_type

\* the headers every asset response carries
BaseHeaders(ar, asset, opts) ==
    ("content-type" :> content_type(asset))
        @@ ("cache-control" :> cache_control(asset, opts))
        @@ ("etag" :> ar.etag)

\* faulty variant: the conditional GET is skipped when the client
\* negotiates an encoding
IfNoneMatchHit_unless_encoding(ar, headers) ==
    /\ headers.if_none_match.some
    /\ headers.if_none_match.v = ar.etag
    /\ ~headers.accept_encoding.some

\* the If-None-Match test of into_response
IfNoneMatchHit(ar, headers) ==
    /\ headers.if_none_match.some
    /\ headers.if_none_match.v = ar.etag

\* faulty variant: gzip is tried before brotli
ChosenEncoding_gzip_first(ar, headers, opts) ==
    IF opts.enable_gzip /\ ar.gzip_bytes_len > 0
       /\ supports_encoding(headers, GZIP_ENCODING)
    THEN "gzip"
    ELSE IF opts.enable_brotli /\ ar.brotli_bytes_len > 0
            /\ supports_encoding(headers, BROTLI_ENCODING)
    THEN "br"
    ELSE "identity"

\* the branch into_response takes after the conditional GET
ChosenEncoding(ar, headers, opts) ==
    IF opts.enable_brotli /\ ar.brotli_bytes_len > 0
       /\ supports_encoding(headers, BROTLI_ENCODING)
    THEN "br"
    ELSE IF opts.enable_gzip /\ ar.gzip_bytes_len > 0
            /\ supports_encoding(headers, GZIP_ENCODING)
    THEN "gzip"
    ELSE "identity"

\* faulty variant: every branch announces the length of the raw bytes
Assemble_raw_length(ar, asset, opts, encoding) ==
    CASE encoding = "br" ->
            Response(ar.status,
                     ("content-length" :> content_length(ar.bytes_len))
                        @@ ("content-encoding" :> BROTLI_ENCODING)
                        @@ BaseHeaders(ar, asset, opts),
                     ar.brotli_bytes)
      [] encoding = "gzip" ->
            Response(ar.status,
                     ("content-length" :> content_length(ar.bytes_len))
                        @@ ("content-encoding" :> GZIP_ENCODING)
                        @@ BaseHeaders(ar, asset, opts),
                     ar.gzip_bytes)
      [] OTHER ->
            Response(ar.status,
                     ("content-length" :> content_length(ar.bytes_len))
                        @@ BaseHeaders(ar, asset, opts),
                     ar.bytes)

\* the three full responses of into_response
Assemble(ar, asset, opts, encoding) ==
    CASE encoding = "br" ->
            Response(ar.status,
                     ("content-length" :> content_length(ar.brotli_bytes_len))
                        @@ ("content-encoding" :> BROTLI_ENCODING)
                        @@ BaseHeaders(ar, asset, opts),
                     ar.brotli_bytes)
      [] encoding = "gzip" ->
            Response(ar.status,
                     ("content-length" :> content_length(ar.gzip_bytes_len))
                        @@ ("content-encoding" :> GZIP_ENCODING)
                        @@ BaseHeaders(ar, asset, opts),
                     ar.gzip_bytes)
      [] OTHER ->
            Response(ar.status,
                     ("content-length" :> content_length(ar.bytes_len))
                        @@ BaseHeaders(ar, asset, opts),
                     ar.bytes)

\* faulty variant: the 304 also carries the Content-Length of the raw form
into_response_not_modified_length(ar, asset, headers, opts) ==
    IF IfNoneMatchHit(ar, headers)
    THEN Response(304,
                  ("content-length" :> content_length(ar.bytes_len))
                      @@ BaseHeaders(ar, asset, opts),
                  <<>>)
    ELSE Assemble(ar, asset, opts, ChosenEncoding(ar, headers, opts))

\* AssetResponse::into_response
into_response(ar, asset, headers, opts) ==
    IF IfNoneMatchHit(ar, headers)
    THEN Response(304, BaseHeaders(ar, asset, opts), <<>>)
    ELSE Assemble(ar, asset, opts, ChosenEncoding(ar, headers, opts))

\* the AssetResponse struct (options, headers and asset are passed along)
AssetResponse(status, etag, bytes, brotli_bytes, gzip_bytes) ==
    [built |-> TRUE, status |-> status, etag |-> etag,
     bytes |-> bytes, bytes_len |-> Len(bytes),
     brotli_bytes |-> brotli_bytes, brotli_bytes_len |-> Len(brotli_bytes),
     gzip_bytes |-> gzip_bytes, gzip_bytes_len |-> Len(gzip_bytes)]

\* no AssetResponse was built (the read failed, or no handler ran)
NoAssetResponse ==
    [built |-> FALSE, status |-> 0, etag |-> <<>>,
     bytes |-> <<>>, bytes_len |-> 0,
     brotli_bytes |-> <<>>, brotli_bytes_len |-> 0,
     gzip_bytes |-> <<>>, gzip_bytes_len |-> 0]

\* faulty variant: a precompressed payload is not decompressed
leak_bytes_keeps_payload(asset, opts) ==
    LET payload == unwrap_or_default(asset.bytes)
        gzip_bytes == IF asset.should_compress /\ opts.enable_gzip
                      THEN unwrap_or_default(compress_gzip(payload))
                      ELSE <<>>
        brotli_bytes == IF asset.should_compress /\ opts.enable_brotli
                        THEN unwrap_or_default(asset.bytes)
                        ELSE <<>>
    IN <<payload, brotli_bytes, gzip_bytes>>

\* faulty variant: the gzip form is made whatever should_compress says
leak_bytes_gzip_always(asset, opts) ==
    LET payload == unwrap_or_default(asset.bytes)
        uncompressed == IF asset.is_compressed
                        THEN unwrap_or_default(decompress_brotli(payload))
                        ELSE payload
        gzip_bytes == IF opts.enable_gzip
                      THEN unwrap_or_default(compress_gzip(uncompressed))
                      ELSE <<>>
        brotli_bytes == IF asset.should_compress /\ opts.enable_brotli
                        THEN unwrap_or_default(asset.bytes)
                        ELSE <<>>
    IN <<uncompressed, brotli_bytes, gzip_bytes>>

\* Asset::leak_bytes: <<uncompressed, brotli_bytes, gzip_bytes>>
leak_bytes(asset, opts) ==
    LET payload == unwrap_or_default(asset.bytes)
        uncompressed == IF asset.is_compressed
                        THEN unwrap_or_default(decompress_brotli(payload))
                        ELSE payload
        gzip_bytes == IF asset.should_compress /\ opts.enable_gzip
                      THEN unwrap_or_default(compress_gzip(uncompressed))
                      ELSE <<>>
        brotli_bytes == IF asset.should_compress /\ opts.enable_brotli
                        THEN unwrap_or_default(asset.bytes)
                        ELSE <<>>
    IN <<uncompressed, brotli_bytes, gzip_bytes>>

\* Asset::read_source_bytes: None stands for Err(StatusCode::NOT_FOUND)
read_source_bytes(asset, fs) == fs[asset.path]

\* Asset::negotiate_dynamic_encoding
negotiate_dynamic_encoding(asset, headers, opts) ==
    IF ~asset.should_compress THEN "Identity"
    ELSE IF opts.enable_brotli /\ supports_encoding(headers, BROTLI_ENCODING)
    THEN "Brotli"
    ELSE IF opts.enable_gzip /\ supports_encoding(headers, GZIP_ENCODING)
    THEN "Gzip"
    ELSE "Identity"

\* faulty variant: both forms are computed whenever one is negotiated
encode_dynamic_bytes_both(bytes, encoding) ==
    CASE encoding \in {"Brotli", "Gzip"} ->
            <<unwrap_or_default(compress_brotli(bytes)),
              unwrap_or_default(compress_gzip(bytes))>>
      [] OTHER -> <<<<>>, <<>>>>

\* Asset::encode_dynamic_bytes: <<brotli_bytes, gzip_bytes>>
encode_dynamic_bytes(bytes, encoding) ==
    CASE encoding = "Brotli" -> <<unwrap_or_default(compress_brotli(bytes)), <<>>>>
      [] encoding = "Gzip" -> <<<<>>, unwrap_or_default(compress_gzip(bytes))>>
      [] OTHER -> <<<<>>, <<>>>>

\* AssetResponse { .. }.into_response(), with the locals the handler
\* went through: was it the dynamic path, what was read, the AssetResponse
Respond(dynamic, read, ar, asset, headers, opts) ==
    [dynamic |-> dynamic, read |-> read, ar |-> ar,
     response |-> into_response(ar, asset, headers, opts)]

\* faulty variant: the etag is taken over the bytes that are sent
DynamicAssetResponse_etag_of_encoded(status, bytes, encoded) ==
    AssetResponse(status,
                  digest(IF encoded[1] # <<>> THEN encoded[1]
                         ELSE IF encoded[2] # <<>> THEN encoded[2] ELSE bytes),
                  bytes, encoded[1], encoded[2])

\* the AssetResponse of dynamic_handler; encoded is <<brotli_bytes, gzip_bytes>>
DynamicAssetResponse(status, bytes, encoded) ==
    AssetResponse(status, digest(bytes), bytes, encoded[1], encoded[2])

\* faulty variant: a failed read is answered with the caller's status
DynamicRead_caller_status(asset, headers, status, opts, read) ==
    IF ~read.some
    THEN [dynamic |-> TRUE, read |-> read, ar |-> NoAssetResponse,
          response |-> StatusResponse(status)]
    ELSE Respond(TRUE, read,
                 DynamicAssetResponse(status, read.v,
                     encode_dynamic_bytes(read.v,
                         negotiate_dynamic_encoding(asset, headers, opts))),
                 asset, headers, opts)

\* dynamic_handler after read_source_bytes returned read
DynamicRead(asset, headers, status, opts, read) ==
    IF ~read.some
    THEN [dynamic |-> TRUE, read |-> read, ar |-> NoAssetResponse,
          response |-> StatusResponse(404)]
    ELSE Respond(TRUE, read,
                 DynamicAssetResponse(
                     status, read.v,
                     encode_dynamic_bytes(
                         read.v, negotiate_dynamic_encoding(asset, headers, opts))),
                 asset, headers, opts)

\* Asset::dynamic_handler
dynamic_handler(asset, headers, status, opts, fs) ==
    DynamicRead(asset, headers, status, opts, read_source_bytes(asset, fs))

\* faulty variant: the dynamic path is taken when there is no brotli form
handler_without_brotli(asset, headers, status, bytes, brotli_bytes, gzip_bytes, opts, fs) ==
    IF brotli_bytes = <<>>
    THEN dynamic_handler(asset, headers, status, opts, fs)
    ELSE Respond(FALSE, NoneBytes,
                 AssetResponse(status, asset.etag, bytes, brotli_bytes, gzip_bytes),
                 asset, headers, opts)

\* Asset::handler
handler(asset, headers, status, bytes, brotli_bytes, gzip_bytes, opts, fs) ==
    IF bytes = <<>>
    THEN dynamic_handler(asset, headers, status, opts, fs)
    ELSE Respond(FALSE, NoneBytes,
                 AssetResponse(status, asset.etag, bytes, brotli_bytes, gzip_bytes),
                 asset, headers, opts)

---------------------------------------------------------------------------
(* lib.rs: MemoryServe::into_router and the axum Router it fills *)

\* a registered closure: the asset it captured and the status it passes
Handler(i, status) == [asset |-> i, status |-> status]

NoHandler == [some |-> FALSE, v |-> Handler(0, 0)]

\* axum::Router::new()
EmptyRouter == [routes |-> EmptyMap, fallback |-> NoHandler, panicked |-> FALSE]

\* Router::route(path, get(handler)): axum panics when the path does not
\* start with "/" or already has a GET handler
Route(r, path, h) ==
    IF r.panicked THEN r
    ELSE IF path = <<>> \/ Head(path) # "/" \/ path \in DOMAIN r.routes
    THEN [r EXCEPT !.panicked = TRUE]
    ELSE [r EXCEPT !.routes = (path :> h) @@ r.routes]

\* Router::fallback(handler): replaces the router's fallback
Fallback(r, h) ==
    IF r.panicked THEN r ELSE [r EXCEPT !.fallback = [some |-> TRUE, v |-> h]]

\* faulty variant: any extension is removed
PrimaryPath_any_extension(route, opts) ==
    IF opts.enable_clean_url /\ \E k \in 1..Len(route) : route[k] = "."
    THEN SubSeq(route, 1, (CHOOSE k \in 1..Len(route) :
                              /\ route[k] = "."
                              /\ \A m \in (k + 1)..Len(route) : route[m] # ".") - 1)
    ELSE route

\* the path of the primary registration: with enable_clean_url a route
\* ending in ".html" is registered without that suffix
PrimaryPath(route, opts) ==
    IF opts.enable_clean_url /\ ends_with(route, <<".", "h", "t", "m", "l">>)
    THEN SubSeq(route, 1, Len(route) - Len(<<".", "h", "t", "m", "l">>))
    ELSE route

\* faulty variant: the loop stops at the first alias of the route
RECURSIVE RouteAliases_first_only(_, _, _, _, _)
RouteAliases_first_only(r, route, i, als, j) ==
    IF j > Len(als) THEN r
    ELSE IF als[j][2] = route THEN Route(r, als[j][1], Handler(i, 200))
    ELSE RouteAliases_first_only(r, route, i, als, j + 1)

\* for (from, to) in self.aliases: register from when to is the route
RECURSIVE RouteAliases(_, _, _, _, _)
RouteAliases(r, route, i, als, j) ==
    IF j > Len(als) THEN r
    ELSE RouteAliases(IF als[j][2] = route
                      THEN Route(r, als[j][1], Handler(i, 200))
                      ELSE r,
                      route, i, als, j + 1)

\* faulty variant: the fallback closure passes StatusCode::OK
RegisterFallback_ok(r, i, asset, opts) ==
    IF Some(asset.route) = opts.fallback
    THEN Fallback(r, Handler(i, 200))
    ELSE r

\* if Some(asset.route) == options.fallback { router.fallback(..) }
RegisterFallback(r, i, asset, opts) ==
    IF Some(asset.route) = opts.fallback
    THEN Fallback(r, Handler(i, opts.fallback_status))
    ELSE r

\* faulty variant: the first asset is put on "/" whatever index_file names
RegisterIndex_first_asset(r, i, asset, opts) ==
    IF i = 1 /\ opts.index_file.some
    THEN Route(r, <<"/">>, Handler(i, 200))
    ELSE r

\* if Some(asset.route) == options.index_file { router.route("/", ..) }
RegisterIndex(r, i, asset, opts) ==
    IF Some(asset.route) = opts.index_file
    THEN Route(r, <<"/">>, Handler(i, 200))
    ELSE r

\* the route of a subdirectory index without the index_file suffix
StripSuffix(route, suffix) == SubSeq(route, 1, Len(route) - Len(suffix))

\* the asset is the index of a subdirectory: its route ends with the
\* index_file suffix and is longer than it (the asset whose route is
\* index_file itself is the one RegisterIndex puts on "/")
IsSubdirectoryIndex(route, opts) ==
    /\ opts.index_file.some
    /\ ends_with(route, opts.index_file.v)
    /\ Len(route) > Len(opts.index_file.v)

\* faulty variant: the subdirectory path is registered whatever the option
RegisterSubdirectoryIndex_always(r, i, asset, opts) ==
    IF IsSubdirectoryIndex(asset.route, opts)
    THEN Route(r, StripSuffix(asset.route, opts.index_file.v), Handler(i, 200))
    ELSE r

\* with index_on_subdirectories, a subdirectory index is also registered
\* at its route with the index_file suffix stripped
RegisterSubdirectoryIndex(r, i, asset, opts) ==
    IF opts.index_on_subdirectories /\ IsSubdirectoryIndex(asset.route, opts)
    THEN Route(r, StripSuffix(asset.route, opts.index_file.v), Handler(i, 200))
    ELSE r

\* the body of the loop over self.assets
RegisterAsset(r, i, asset, opts, als) ==
    LET r1 == RegisterFallback(r, i, asset, opts)
        r2 == RegisterIndex(r1, i, asset, opts)
        r3 == RegisterSubdirectoryIndex(r2, i, asset, opts)
        r4 == Route(r3, PrimaryPath(asset.route, opts), Handler(i, 200))
    IN RouteAliases(r4, asset.route, i, als, 1)

RECURSIVE RegisterFrom(_, _, _, _, _)
RegisterFrom(r, i, as, opts, als) ==
    IF i > Len(as) THEN r
    ELSE RegisterFrom(RegisterAsset(r, i, as[i], opts, als), i + 1, as, opts, als)

\* the Router that into_router returns (or the panic it ends in)
BuildRouter(as, opts, als) == RegisterFrom(EmptyRouter, 1, as, opts, als)

\* axum's Route fills in Content-Length from the body when the handler
\* set none
set_content_length(resp) ==
    IF "content-length" \in DOMAIN resp.headers THEN resp
    ELSE [resp EXCEPT !.headers = ("content-length" :> Len(resp.body)) @@ resp.headers]

\* what the router did with a request: the closure it called (asset,
\* status, via), what the closure went through (t) and returned
\* (produced), and the response sent
Exchange(h, via, t) ==
    [call |-> [asset |-> h.asset, status |-> h.status, via |-> via,
               dynamic |-> t.dynamic, read |-> t.read, ar |-> t.ar,
               produced |-> t.response],
     response |-> set_content_length(t.response)]

\* a registered closure called: asset.handler(&headers, status, bytes, ..)
Invoke(h, via, headers, fs) ==
    Exchange(h, via,
             handler(assets[h.asset], headers, h.status, leaked[h.asset][1],
                     leaked[h.asset][2], leaked[h.asset][3], options, fs))

\* the closure a GET of path reaches: the route's, else the fallback
Matched(r, path) ==
    IF path \in DOMAIN r.routes
    THEN [some |-> TRUE, v |-> r.routes[path], via |-> "route"]
    ELSE IF r.fallback.some
    THEN [some |-> TRUE, v |-> r.fallback.v, via |-> "fallback"]
    ELSE [some |-> FALSE, v |-> Handler(0, 404), via |-> "none"]

\* the closure called, or axum's empty 404 when there is none
Serve(m, headers, fs) ==
    IF m.some THEN Invoke(m.v, m.via, headers, fs)
    ELSE Exchange(m.v, m.via,
                  [dynamic |-> FALSE, read |-> NoneBytes, ar |-> NoAssetResponse,
                   response |-> StatusResponse(404)])

\* the Router serving GET path
Dispatch(r, path, headers, fs) == Serve(Matched(r, path), headers, fs)

---------------------------------------------------------------------------
(* Bounds and the inputs drawn *)

\* add_alias calls per MemoryServe
MaxAliases == 2

\* atoms concatenated into an Accept-Encoding value given to supports_encoding
MaxAtoms == 4

IndexFileChoices == {NoRoute, Some(IndexHtml), Some(AboutHtml), Some(MissingHtml)}

FallbackChoices == {NoRoute, Some(IndexHtml), Some(MissingHtml)}

AliasChoices ==
    {<<Foobar, IndexHtml>>, <<Baz, IndexHtml>>, <<RootPath, AboutHtml>>,
     <<AboutHtml, IndexHtml>>, <<Barfoo, MissingHtml>>}

CacheControlChoices ==
    {CacheControlLong, CacheControlMedium, CacheControlShort,
     CacheControlNoCache, CacheControlCustom("public")}

RequestPaths ==
    {RootPath, IndexHtml, IndexClean, AboutHtml, AboutClean, IconJpg, StyleCss,
     Foobar, Baz, Barfoo, DocsIndexHtml, DocsIndexClean, DocsPath}

\* If-None-Match values: none, the etag of each version of the page, the
\* empty etag of a dynamic manifest entry, the etag quoted
IfNoneMatchChoices ==
    {NoHeader, Some(digest(BigHtml)), Some(digest(EditedHtml)), Some(<<>>),
     Some(<<"\"">> \o digest(BigHtml) \o <<"\"">>)}

AcceptEncodingChoices ==
    {NoHeader, Some(AeGzip), Some(AeBr), Some(AeFull), Some(AeIdentity),
     Some(AeNoBr), Some(AeZeroBr), Some(AeStarNoBr)}

Headers(inm, ae) == [if_none_match |-> inm, accept_encoding |-> ae]

NoRequest == [path |-> <<>>, headers |-> Headers(NoHeader, NoHeader)]

\* worker threads of the runtime that serve requests at the same time
MaxTasks == 2

Tasks == 1..MaxTasks

\* a worker thread between requests
IdleTask ==
    [at |-> "idle", asset |-> 0, status |-> 0,
     headers |-> Headers(NoHeader, NoHeader), buf |-> <<>>,
     read |-> [some |-> FALSE, v |-> <<>>],
     response |-> [status |-> 0, headers |-> <<>>, body |-> <<>>]]

\* bytes one read(2) of std::fs::read returns at most
ChunkSize == 65

NoTasks == [t \in Tasks |-> IdleTask]

NoCall ==
    [asset |-> 0, status |-> 0, via |-> "idle", dynamic |-> FALSE,
     read |-> NoneBytes, ar |-> NoAssetResponse, produced |-> StatusResponse(0)]

NoProbe == [headers |-> Headers(NoHeader, NoHeader), encoding |-> <<>>,
            called |-> FALSE, result |-> FALSE]

---------------------------------------------------------------------------
(* State machine *)

\* the build (load_directory_with_embed under either profile), then
\* MemoryServe::new(load!())
InitWith(builds, probes) ==
    /\ pc = "config"
    /\ \E b \in builds :
          /\ assets = Manifest(b[1], b[2])
          /\ options = DefaultOptions(b[2])
    /\ aliases = <<>>
    /\ router = EmptyRouter
    /\ leaked = <<>>
    /\ disk = [p \in SourcePaths |->
                 Some((CHOOSE f \in {SourceFiles[i] : i \in 1..Len(SourceFiles)} :
                          f.path = p).bytes)]
    /\ request = NoRequest
    /\ call = NoCall
    /\ response = StatusResponse(0)
    /\ \E h \in probes : probe = [NoProbe EXCEPT !.headers = Headers(NoHeader, h)]
    /\ build = NoBuild
    /\ tasks = NoTasks

Init == InitWith(BOOLEAN \X BOOLEAN, {NoHeader, Some(AeFull)})

\* the same for the directory of SiteFiles
InitSite ==
    /\ pc = "config"
    /\ \E b \in {<<TRUE, FALSE>>, <<FALSE, TRUE>>} :
          /\ assets = SiteManifest(b[1], b[2])
          /\ options = DefaultOptions(b[2])
    /\ aliases = <<>>
    /\ router = EmptyRouter
    /\ leaked = <<>>
    /\ disk = [p \in {SiteFiles[i].path : i \in 1..Len(SiteFiles)} |->
                 Some((CHOOSE f \in {SiteFiles[i] : i \in 1..Len(SiteFiles)} :
                          f.path = p).bytes)]
    /\ request = NoRequest
    /\ call = NoCall
    /\ response = StatusResponse(0)
    /\ probe = NoProbe
    /\ build = NoBuild
    /\ tasks = NoTasks

\* the state before the build script runs
InitBuild(b) ==
    /\ pc = "build"
    /\ assets = <<>>
    /\ options = DefaultOptions(b.debug)
    /\ aliases = <<>>
    /\ router = EmptyRouter
    /\ leaked = <<>>
    /\ disk = [p \in {} |-> NoneBytes]
    /\ request = NoRequest
    /\ call = NoCall
    /\ response = StatusResponse(0)
    /\ probe = NoProbe
    /\ build = b
    /\ tasks = NoTasks

\* list_assets(base_path, embed, log) run on the tree, the walk yielding
\* its entries in some order; the pipeline is run at most twice
Index(embed, walk) ==
    /\ pc = "build"
    /\ Len(build.runs) < 2
    /\ build' = [build EXCEPT
                   !.walk = walk,
                   !.runs = Append(@, [embed |-> embed,
                                       listed |-> list_assets(walk, embed, build.debug)])]
    /\ UNCHANGED <<pc, assets, options, aliases, router, leaked, disk, request,
                   call, response, probe, tasks>>

\* path_to_route(base, path) called on the file
PathToRoute ==
    /\ pc = "build"
    /\ build.file # <<>>
    /\ ~build.route.some
    /\ build' = [build EXCEPT !.route = Some(path_to_route(build.file))]
    /\ UNCHANGED <<pc, assets, options, aliases, router, leaked, disk, request,
                   call, response, probe, tasks>>

\* build/mod.rs load_names_directories(named_paths, embed), called from the
\* build script of the application; walks is the order WalkDir yields
\* each directory in
load_names_directories(named_paths, embed, walks) ==
    /\ pc = "build"
    /\ build.script = ""
    /\ \E done \in {NamedGroups(named_paths, 1, walks, embed, build.debug,
                                 [store |-> <<>>, out_dir |-> <<>>])} :
          build' = [build EXCEPT !.script = "mod",
                                 !.store = done.store,
                                 !.out_dir = done.out_dir]
    /\ UNCHANGED <<pc, assets, options, aliases, router, leaked, disk, request,
                   call, response, probe, tasks>>

\* build.rs main: one include_directory per ASSET_DIR variable (env, in
\* the order std::env::vars() yields them; their names are distinct), or
\* the store "&[]" when there is none; force_embed is the feature
main(env, force_embed, walks) ==
    /\ pc = "build"
    /\ build.script = ""
    /\ \A i, j \in 1..Len(env) : env[i].name = env[j].name => i = j
    /\ \E done \in {EnvGroups(env, 1, walks, ~build.debug \/ force_embed,
                               [store |-> <<>>, out_dir |-> <<>>])} :
          build' = [build EXCEPT !.script = "main",
                                 !.store = done.store,
                                 !.out_dir = done.out_dir]
    /\ UNCHANGED <<pc, assets, options, aliases, router, leaked, disk, request,
                   call, response, probe, tasks>>

\* load!(): the store written by load_names_directories is included; with
\* no group in it the macro panics, else MemoryServe::new(assets[0].1)
load ==
    /\ pc = "build"
    /\ build.script = "mod"
    /\ build.load = ""
    /\ build' = [build EXCEPT !.load = "load!()"]
    /\ IF build.store = <<>>
       THEN /\ pc' = "panicked"
            /\ UNCHANGED assets
       ELSE /\ pc' = "config"
            /\ assets' = IncludedGroup(build.store[1], build.out_dir)
    /\ UNCHANGED <<options, aliases, router, leaked, disk, request, call,
                   response, probe, tasks>>

\* faulty variant: the last group of that name is taken
load_title_last(title) ==
    /\ pc = "build"
    /\ build.script = "mod"
    /\ build.load = ""
    /\ build' = [build EXCEPT !.load = "load!(title)", !.title = title]
    /\ \E selected_assets \in
          {IF \E n \in 1..Len(build.store) : build.store[n].name = title
           THEN IncludedGroup(
                    build.store[CHOOSE n \in 1..Len(build.store) :
                                   /\ build.store[n].name = title
                                   /\ \A m \in (n + 1)..Len(build.store) :
                                         build.store[m].name # title],
                    build.out_dir)
           ELSE <<>>} :
          IF selected_assets = <<>>
          THEN /\ pc' = "panicked"
               /\ UNCHANGED assets
          ELSE /\ pc' = "config"
               /\ assets' = selected_assets
    /\ UNCHANGED <<options, aliases, router, leaked, disk, request, call,
                   response, probe, tasks>>

\* load!(title): the assets of the first group of that name, or the empty
\* slice (unwrap_or_default); the macro panics when they are empty
load_title(title) ==
    /\ pc = "build"
    /\ build.script = "mod"
    /\ build.load = ""
    /\ build' = [build EXCEPT !.load = "load!(title)", !.title = title]
    /\ \E selected_assets \in
          {IF \E n \in 1..Len(build.store) : build.store[n].name = title
           THEN IncludedGroup(
                    build.store[CHOOSE n \in 1..Len(build.store) :
                                   /\ build.store[n].name = title
                                   /\ \A m \in 1..(n - 1) :
                                         build.store[m].name # title],
                    build.out_dir)
           ELSE <<>>} :
          IF selected_assets = <<>>
          THEN /\ pc' = "panicked"
               /\ UNCHANGED assets
          ELSE /\ pc' = "config"
               /\ assets' = selected_assets
    /\ UNCHANGED <<options, aliases, router, leaked, disk, request, call,
                   response, probe, tasks>>

\* MemoryServe::index_file
index_file(v) ==
    /\ pc = "config"
    /\ options' = [options EXCEPT !.index_file = v]
    /\ UNCHANGED <<pc, assets, aliases, router, leaked, disk, request, call,
                   response, probe, build, tasks>>

\* MemoryServe::index_on_subdirectories
index_on_subdirectories(b) ==
    /\ pc = "config"
    /\ options' = [options EXCEPT !.index_on_subdirectories = b]
    /\ UNCHANGED <<pc, assets, aliases, router, leaked, disk, request, call,
                   response, probe, build, tasks>>

\* MemoryServe::fallback
fallback(v) ==
    /\ pc = "config"
    /\ options' = [options EXCEPT !.fallback = v]
    /\ UNCHANGED <<pc, assets, aliases, router, leaked, disk, request, call,
                   response, probe, build, tasks>>

\* MemoryServe::fallback_status
fallback_status(s) ==
    /\ pc = "config"
    /\ options' = [options EXCEPT !.fallback_status = s]
    /\ UNCHANGED <<pc, assets, aliases, router, leaked, disk, request, call,
                   response, probe, build, tasks>>

\* MemoryServe::enable_gzip
enable_gzip(b) ==
    /\ pc = "config"
    /\ options' = [options EXCEPT !.enable_gzip = b]
    /\ UNCHANGED <<pc, assets, aliases, router, leaked, disk, request, call,
                   response, probe, build, tasks>>

\* MemoryServe::enable_brotli
enable_brotli(b) ==
    /\ pc = "config"
    /\ options' = [options EXCEPT !.enable_brotli = b]
    /\ UNCHANGED <<pc, assets, aliases, router, leaked, disk, request, call,
                   response, probe, build, tasks>>

\* MemoryServe::enable_clean_url
enable_clean_url(b) ==
    /\ pc = "config"
    /\ options' = [options EXCEPT !.enable_clean_url = b]
    /\ UNCHANGED <<pc, assets, aliases, router, leaked, disk, request, call,
                   response, probe, build, tasks>>

\* MemoryServe::html_cache_control
html_cache_control(c) ==
    /\ pc = "config"
    /\ options' = [options EXCEPT !.html_cache_control = c]
    /\ UNCHANGED <<pc, assets, aliases, router, leaked, disk, request, call,
                   response, probe, build, tasks>>

\* MemoryServe::cache_control
set_cache_control(c) ==
    /\ pc = "config"
    /\ options' = [options EXCEPT !.cache_control = c]
    /\ UNCHANGED <<pc, assets, aliases, router, leaked, disk, request, call,
                   response, probe, build, tasks>>

\* MemoryServe::add_alias
add_alias(from, to) ==
    /\ pc = "config"
    /\ Len(aliases) < MaxAliases
    /\ aliases' = Append(aliases, <<from, to>>)
    /\ UNCHANGED <<pc, assets, options, router, leaked, disk, request, call,
                   response, probe, build, tasks>>

\* MemoryServe::into_router: the options and the byte forms are leaked,
\* every asset is registered; a panic of Router::route ends the process
into_router ==
    /\ pc = "config"
    /\ \E r \in {BuildRouter(assets, options, aliases)} :
          /\ router' = r
          /\ pc' = IF r.panicked THEN "panicked" ELSE "serving"
    /\ leaked' = [i \in 1..Len(assets) |-> leak_bytes(assets[i], options)]
    /\ UNCHANGED <<assets, options, aliases, disk, request, call, response, probe, build, tasks>>

\* one GET request served by the router.  The handlers keep no state
\* between requests, so requests are taken one at a time: the next one
\* arrives once the client has read the response (Receive).
Get(path, headers) ==
    /\ pc = "serving"
    /\ call.via = "idle"
    /\ request' = [path |-> path, headers |-> headers]
    /\ \E d \in {Dispatch(router, path, headers, disk)} :
          /\ call' = d.call
          /\ response' = d.response
    /\ UNCHANGED <<pc, assets, options, aliases, router, leaked, disk, probe,
                   build, tasks>>

\* the client has read the response; the connection is idle again
Receive ==
    /\ call.via # "idle"
    /\ request' = NoRequest
    /\ call' = NoCall
    /\ response' = StatusResponse(0)
    /\ UNCHANGED <<pc, assets, options, aliases, router, leaked, disk, probe,
                   build, tasks>>

\* the environment rewrites a source file
WriteFile(path, bytes) ==
    /\ disk' = [disk EXCEPT ![path] = Some(bytes)]
    /\ UNCHANGED <<pc, assets, options, aliases, router, leaked, request, call,
                   response, probe, build, tasks>>

\* the environment removes a source file (or makes it unreadable)
RemoveFile(path) ==
    /\ disk' = [disk EXCEPT ![path] = NoneBytes]
    /\ UNCHANGED <<pc, assets, options, aliases, router, leaked, request, call,
                   response, probe, build, tasks>>

\* dynamic_handler on a worker thread once read_source_bytes returned
\* read: the rest of the handler works on that local buffer alone
Answered(task, read) ==
    [task EXCEPT
        !.at = "done",
        !.read = read,
        !.response =
            set_content_length(
                DynamicRead(assets[task.asset], task.headers, task.status, options,
                            read).response)]

\* the buffer of std::fs::read after one more read(2) of a file holding
\* content
Appended(buf, content) ==
    buf \o SubSeq(content, Len(buf) + 1,
                  IF Len(buf) + ChunkSize < Len(content)
                  THEN Len(buf) + ChunkSize ELSE Len(content))

\* a worker thread takes a GET: the router calls the closure of the
\* route or the fallback, and Asset::handler answers from the embedded
\* bytes or enters dynamic_handler
Accept(t, path, headers) ==
    /\ pc = "serving"
    /\ tasks[t].at = "idle"
    /\ \E m \in {Matched(router, path)} :
          /\ m.some
          /\ tasks' =
                [tasks EXCEPT ![t] =
                    IF leaked[m.v.asset][1] = <<>>
                    THEN [IdleTask EXCEPT !.at = "called", !.asset = m.v.asset,
                                          !.status = m.v.status, !.headers = headers]
                    ELSE [IdleTask EXCEPT
                            !.at = "done", !.asset = m.v.asset,
                            !.status = m.v.status, !.headers = headers,
                            !.response =
                                set_content_length(
                                    handler(assets[m.v.asset], headers, m.v.status,
                                            leaked[m.v.asset][1], leaked[m.v.asset][2],
                                            leaked[m.v.asset][3], options,
                                            disk).response)]]
    /\ UNCHANGED <<pc, assets, options, aliases, router, leaked, disk, request, call,
                   response, probe, build>>

\* read_source_bytes: std::fs::read opens the file; Err when it is missing
Open(t) ==
    /\ tasks[t].at = "called"
    /\ tasks' = [tasks EXCEPT ![t] =
                    IF disk[assets[@.asset].path].some
                    THEN [@ EXCEPT !.at = "reading"]
                    ELSE Answered(@, NoneBytes)]
    /\ UNCHANGED <<pc, assets, options, aliases, router, leaked, disk, request, call,
                   response, probe, build>>

\* one read(2) of the open file, which sees the file as it is now: more
\* bytes, or the end of the file (also when the file was cut or removed
\* meanwhile), on which std::fs::read returns and the handler goes on
ReadChunk(t) ==
    /\ tasks[t].at = "reading"
    /\ \E f \in {disk[assets[tasks[t].asset].path]} :
          tasks' = [tasks EXCEPT ![t] =
                       IF f.some /\ Len(@.buf) < Len(f.v)
                       THEN [@ EXCEPT !.buf = Appended(@, f.v)]
                       ELSE Answered(@, Some(@.buf))]
    /\ UNCHANGED <<pc, assets, options, aliases, router, leaked, disk, request, call,
                   response, probe, build>>

\* a read(2) of the open file fails once the file is gone or unreadable
ReadError(t) ==
    /\ tasks[t].at = "reading"
    /\ ~disk[assets[tasks[t].asset].path].some
    /\ tasks' = [tasks EXCEPT ![t] = Answered(@, NoneBytes)]
    /\ UNCHANGED <<pc, assets, options, aliases, router, leaked, disk, request, call,
                   response, probe, build>>

\* the response is written to the connection; the thread is free again
Deliver(t) ==
    /\ tasks[t].at = "done"
    /\ tasks' = [tasks EXCEPT ![t] = IdleTask]
    /\ UNCHANGED <<pc, assets, options, aliases, router, leaked, disk, request, call,
                   response, probe, build>>

\* supports_encoding called on the probe's headers
SupportsEncoding(encoding) ==
    /\ ~probe.called
    /\ probe' = [probe EXCEPT !.encoding = encoding, !.called = TRUE,
                              !.result = supports_encoding(probe.headers, encoding)]
    /\ UNCHANGED <<pc, assets, options, aliases, router, leaked, disk, request,
                   call, response, build, tasks>>

Next ==
    \/ \E v \in IndexFileChoices : index_file(v)
    \/ \E b \in BOOLEAN : index_on_subdirectories(b)
    \/ \E v \in FallbackChoices : fallback(v)
    \/ \E s \in {200, 404} : fallback_status(s)
    \/ \E b \in BOOLEAN : enable_gzip(b)
    \/ \E b \in BOOLEAN : enable_brotli(b)
    \/ \E b \in BOOLEAN : enable_clean_url(b)
    \/ \E c \in CacheControlChoices : html_cache_control(c)
    \/ \E c \in CacheControlChoices : set_cache_control(c)
    \/ \E a \in AliasChoices : add_alias(a[1], a[2])
    \/ into_router
    \/ \E p \in RequestPaths, i \in IfNoneMatchChoices, e \in AcceptEncodingChoices :
          Get(p, Headers(i, e))
    \/ Receive
    \/ \E p \in SourcePaths, b \in {BigHtml, EditedHtml} : WriteFile(p, b)
    \/ \E p \in SourcePaths : RemoveFile(p)
    \/ \E c \in {BROTLI_ENCODING, GZIP_ENCODING, CompressCoding, ZstdCoding} :
          SupportsEncoding(c)
    \/ \E embed \in BOOLEAN : \E walk \in Walks(build.tree) : Index(embed, walk)
    \/ PathToRoute
    \/ \E named_paths \in NamedPaths, embed \in BOOLEAN, walks \in DirWalks :
          load_names_directories(named_paths, embed, walks)
    \/ \E env \in NamedPaths, force_embed \in BOOLEAN, walks \in DirWalks :
          main(env, force_embed, walks)
    \/ load
    \/ \E title \in Titles : load_title(title)
    \/ \E t \in Tasks, p \in RequestPaths, i \in IfNoneMatchChoices,
          e \in AcceptEncodingChoices : Accept(t, p, Headers(i, e))
    \/ \E t \in Tasks : Open(t)
    \/ \E t \in Tasks : ReadChunk(t)
    \/ \E t \in Tasks : ReadError(t)
    \/ \E t \in Tasks : Deliver(t)

\* the whole program
Spec == Init /\ [][Next]_vars

---------------------------------------------------------------------------
(* The response protocol: compression and cache options, the fallback      *)
(* status, every build, and a source file that changes under the server    *)

ProtocolPaths == {IndexHtml, AboutHtml, IconJpg, StyleCss, Barfoo}

NextProtocol ==
    \/ \E b \in BOOLEAN : enable_gzip(b)
    \/ \E b \in BOOLEAN : enable_brotli(b)
    \/ \E c \in {CacheControlShort, CacheControlNoCache} : html_cache_control(c)
    \/ \E c \in {CacheControlMedium, CacheControlCustom("public")} : set_cache_control(c)
    \/ \E v \in {NoRoute, Some(IndexHtml)} : fallback(v)
    \/ \E s \in {200, 404} : fallback_status(s)
    \/ into_router
    \/ \E p \in ProtocolPaths, i \in IfNoneMatchChoices, e \in AcceptEncodingChoices :
          Get(p, Headers(i, e))
    \/ Receive
    \/ \E b \in {BigHtml, EditedHtml} : WriteFile("static/index.html", b)
    \/ RemoveFile("static/index.html")

SpecProtocol == InitWith(BOOLEAN \X BOOLEAN, {NoHeader}) /\ [][NextProtocol]_vars

---------------------------------------------------------------------------
(* Requests served at the same time on several worker threads, in a        *)
(* dynamic build, while the source file of the asset changes               *)

\* a conditional request that negotiates brotli
ConcurrentHeaders == {Headers(Some(digest(EditedHtml)), Some(AeBr))}

NextConcurrent ==
    \/ enable_brotli(TRUE)
    \/ into_router
    \/ \E t \in Tasks, h \in ConcurrentHeaders : Accept(t, IndexHtml, h)
    \/ \E t \in Tasks : Open(t)
    \/ \E t \in Tasks : ReadChunk(t)
    \/ \E t \in Tasks : ReadError(t)
    \/ \E t \in Tasks : Deliver(t)
    \/ \E b \in {BigHtml, EditedHtml} : WriteFile("static/index.html", b)
    \/ RemoveFile("static/index.html")

SpecConcurrent == InitWith({<<FALSE, TRUE>>}, {NoHeader}) /\ [][NextConcurrent]_vars

---------------------------------------------------------------------------
(* Route composition: index file, fallback, aliases and clean URLs, for    *)
(* the builds load_directory makes (embedded release, dynamic debug)       *)

NextRouting ==
    \/ \E v \in IndexFileChoices : index_file(v)
    \/ \E b \in BOOLEAN : index_on_subdirectories(b)
    \/ \E v \in FallbackChoices : fallback(v)
    \/ \E s \in {200, 404} : fallback_status(s)
    \/ \E b \in BOOLEAN : enable_clean_url(b)
    \/ \E a \in AliasChoices : add_alias(a[1], a[2])
    \/ into_router
    \/ \E p \in RequestPaths, i \in {NoHeader, Some(digest(BigHtml))},
          e \in {NoHeader, Some(AeBr)} :
          Get(p, Headers(i, e))
    \/ Receive

SpecRouting ==
    InitWith({<<TRUE, FALSE>>, <<FALSE, TRUE>>}, {NoHeader}) /\ [][NextRouting]_vars

---------------------------------------------------------------------------
(* Route composition without aliases, for a directory that holds docs.html *)
(* and docs/index.html                                                     *)

SitePaths ==
    {RootPath, IndexHtml, IndexClean, DocsHtmlRoute, DocsPath, DocsIndexHtml,
     DocsIndexClean}

NextSite ==
    \/ \E v \in {NoRoute, Some(IndexHtml), Some(DocsHtmlRoute)} : index_file(v)
    \/ \E b \in BOOLEAN : index_on_subdirectories(b)
    \/ \E b \in BOOLEAN : enable_clean_url(b)
    \/ into_router
    \/ \E p \in SitePaths : Get(p, Headers(NoHeader, NoHeader))
    \/ Receive

SpecSite == InitSite /\ [][NextSite]_vars

---------------------------------------------------------------------------
(* The indexing pipeline on its own: every tree of at most MaxEntries      *)
(* entries, either profile of the build script, every walk order           *)

NextIndex == \E embed \in BOOLEAN : \E walk \in Walks(build.tree) : Index(embed, walk)

SpecIndex ==
    /\ \E t \in Trees, debug \in BOOLEAN :
          InitBuild([NoBuild EXCEPT !.tree = t, !.debug = debug])
    /\ [][NextIndex]_vars

---------------------------------------------------------------------------
(* The build scripts and load!: the store is written once, then loaded     *)

NextStore ==
    \/ \E named_paths \in NamedPaths, embed \in BOOLEAN, walks \in DirWalks :
          load_names_directories(named_paths, embed, walks)
    \/ \E env \in NamedPaths, force_embed \in BOOLEAN, walks \in DirWalks :
          main(env, force_embed, walks)
    \/ load
    \/ \E title \in Titles : load_title(title)

SpecStore ==
    /\ \E debug \in BOOLEAN : InitBuild([NoBuild EXCEPT !.debug = debug])
    /\ [][NextStore]_vars

---------------------------------------------------------------------------
(* path_to_route on its own: every file name of at most MaxNameLen         *)
(* characters                                                              *)

NextRoute == PathToRoute

SpecRoute ==
    /\ \E f \in FilePaths : InitBuild([NoBuild EXCEPT !.file = f])
    /\ [][NextRoute]_vars

---------------------------------------------------------------------------
(* supports_encoding on its own: every Accept-Encoding value made of at    *)
(* most MaxAtoms atoms, and the values of the unit test                    *)

HeaderAtoms ==
    {<<"g", "z", "i", "p">>, <<"b", "r">>, <<"*">>, <<",">>, <<";", "q", "=">>,
     <<"0">>, <<".">>, <<" ">>, <<"0xFF">>}

RECURSIVE Flatten(_)
Flatten(ss) == IF ss = <<>> THEN <<>> ELSE Head(ss) \o Flatten(Tail(ss))

GeneratedHeaders ==
    {Flatten(a) : a \in UNION {[1..k -> HeaderAtoms] : k \in 0..MaxAtoms}}

TestHeaders ==
    {AeGzip, AeList, AeFull, AeNoBr, AeIdentity,
     <<"*", ";", "q", "=", "0", ",", "g", "z", "i", "p">>,
     <<"g", "z", "i", "p", ";", "q", "=", "0", ",", "*">>,
     <<"g", "z", "i", "p", ";", "q", "=", "0", ".", "0">>,
     <<"g", "z", "i", "p", ",", " ", "0xFF">>}

ProbeHeaders == {NoHeader} \cup {Some(h) : h \in GeneratedHeaders \cup TestHeaders}

NextEncoding ==
    \E c \in {BROTLI_ENCODING, GZIP_ENCODING, CompressCoding, ZstdCoding} :
        SupportsEncoding(c)

SpecEncoding == InitWith({<<TRUE, FALSE>>}, ProbeHeaders) /\ [][NextEncoding]_vars

---------------------------------------------------------------------------
(* Properties of the response protocol (SpecProtocol) *)

\* a registered handler answered the last request
HandlerRan == pc = "serving" /\ call.via \in {"route", "fallback"}

\* the asset the handler captured
ServedAsset == assets[call.asset]

\* the asset's bytes were available: embedded, or read from disk
BytesAvailable == HandlerRan /\ (ServedAsset.bytes.some \/ call.read.some)

\* the file as the build script saw it, or as this request read it
OriginalBytes ==
    IF ServedAsset.bytes.some THEN SourceFiles[call.asset].bytes ELSE call.read.v

\* the etag the response is about: the manifest's, or the hash of the read
ResolvedEtag ==
    IF ServedAsset.bytes.some THEN ServedAsset.etag ELSE digest(call.read.v)

ConditionalHit ==
    /\ request.headers.if_none_match.some
    /\ request.headers.if_none_match.v = ResolvedEtag

\* the request is answered with a full response (neither 304 nor a failed read)
FullResponse == BytesAvailable /\ ~ConditionalHit

HasHeader(h) == h \in DOMAIN response.headers

Accepts(coding) == supports_encoding(request.headers, coding)

\* the coding the priority rule gives for the forms the handler held
ExpectedCoding ==
    IF options.enable_brotli /\ call.ar.brotli_bytes # <<>> /\ Accepts(BROTLI_ENCODING)
    THEN "br"
    ELSE IF options.enable_gzip /\ call.ar.gzip_bytes # <<>> /\ Accepts(GZIP_ENCODING)
    THEN "gzip"
    ELSE "identity"

\* C1: a request whose If-None-Match equals the resolved etag of an asset
\* whose bytes are available gets 304, an empty body, Content-Length 0 and
\* no Content-Encoding, whatever Accept-Encoding, the enable_* options and
\* the caller's status are
C1_ConditionalGet ==
    (BytesAvailable /\ ConditionalHit) =>
        /\ response.status = 304
        /\ response.body = <<>>
        /\ HasHeader("content-length")
        /\ response.headers["content-length"] = 0
        /\ ~HasHeader("content-encoding")

\* C1 happens: a fallback handler with caller status 200, brotli enabled
\* and accepted, a dynamic asset read from disk, answered 304
C1_Witness ==
    /\ BytesAvailable /\ ConditionalHit
    /\ call.via = "fallback" /\ call.status = 200
    /\ call.dynamic
    /\ options.enable_brotli
    /\ request.headers.accept_encoding = Some(AeFull)
    /\ response.status = 304

\* C2: a full response uses exactly one of br, gzip, identity by strict
\* priority: br if enabled, its form non-empty and accepted; else gzip under
\* the same conditions; else identity.  A client accepting both is never
\* served gzip when the brotli form is available and enabled.
C2_EncodingPriority ==
    FullResponse =>
        /\ ExpectedCoding = "br" =>
              /\ HasHeader("content-encoding")
              /\ response.headers["content-encoding"] = BROTLI_ENCODING
              /\ response.body = call.ar.brotli_bytes
        /\ ExpectedCoding = "gzip" =>
              /\ HasHeader("content-encoding")
              /\ response.headers["content-encoding"] = GZIP_ENCODING
              /\ response.body = call.ar.gzip_bytes
        /\ ExpectedCoding = "identity" =>
              /\ ~HasHeader("content-encoding")
              /\ response.body = call.ar.bytes
        /\ ( /\ Accepts(BROTLI_ENCODING) /\ Accepts(GZIP_ENCODING)
             /\ options.enable_brotli /\ call.ar.brotli_bytes # <<>> ) =>
              ~( /\ HasHeader("content-encoding")
                 /\ response.headers["content-encoding"] = GZIP_ENCODING )

\* C2 happens: both forms exist and are enabled, the client accepts both,
\* and the response is brotli
C2_Witness ==
    /\ FullResponse
    /\ options.enable_brotli /\ options.enable_gzip
    /\ call.ar.brotli_bytes # <<>> /\ call.ar.gzip_bytes # <<>>
    /\ request.headers.accept_encoding = Some(AeFull)
    /\ HasHeader("content-encoding")
    /\ response.headers["content-encoding"] = BROTLI_ENCODING

\* C3: in a full response Content-Length is the length of the body sent,
\* Content-Encoding is present exactly when the chosen form is br or gzip,
\* and an identity response carries the whole original file
C3_LengthAndEncoding ==
    FullResponse =>
        /\ HasHeader("content-length")
        /\ response.headers["content-length"] = Len(response.body)
        /\ HasHeader("content-encoding") <=> ExpectedCoding \in {"br", "gzip"}
        /\ ExpectedCoding = "identity" =>
              /\ ~HasHeader("content-encoding")
              /\ response.headers["content-length"] = Len(OriginalBytes)
              /\ response.body = OriginalBytes

\* C3 happens: a precompressed embedded asset asked for as identity is
\* sent decompressed, at its original length
C3_Witness ==
    /\ FullResponse
    /\ ServedAsset.is_compressed
    /\ request.headers.accept_encoding = Some(AeIdentity)
    /\ ~HasHeader("content-encoding")
    /\ response.headers["content-length"] = Len(BigHtml)
    /\ response.body = BigHtml

CodingEnabled(coding) ==
    IF coding = BROTLI_ENCODING THEN options.enable_brotli ELSE options.enable_gzip

\* C4: with enable_brotli false no response carries Content-Encoding br,
\* with enable_gzip false none carries gzip; when every coding the client
\* accepts is disabled the response is the uncompressed original
C4_DisabledCoding ==
    (pc = "serving" /\ call.via # "idle") =>
        /\ ~options.enable_brotli =>
              ~( /\ HasHeader("content-encoding")
                 /\ response.headers["content-encoding"] = BROTLI_ENCODING )
        /\ ~options.enable_gzip =>
              ~( /\ HasHeader("content-encoding")
                 /\ response.headers["content-encoding"] = GZIP_ENCODING )
        /\ ( /\ FullResponse
             /\ \E c \in {BROTLI_ENCODING, GZIP_ENCODING} :
                   Accepts(c) /\ ~CodingEnabled(c)
             /\ \A c \in {BROTLI_ENCODING, GZIP_ENCODING} :
                   Accepts(c) => ~CodingEnabled(c) ) =>
              /\ ~HasHeader("content-encoding")
              /\ response.body = OriginalBytes
              /\ response.headers["content-length"] = Len(OriginalBytes)

\* C4 happens: brotli disabled, the client accepts only br, and the
\* precompressed asset is answered with its original bytes
C4_Witness ==
    /\ FullResponse
    /\ ~options.enable_brotli
    /\ ServedAsset.is_compressed
    /\ request.headers.accept_encoding = Some(AeBr)
    /\ ~HasHeader("content-encoding")
    /\ response.body = BigHtml

\* C6: on every response of an asset, full or 304, Cache-Control is the
\* html_cache_control policy for content type text/html and the
\* cache_control policy for any other type
C6_CacheControl ==
    BytesAvailable =>
        /\ HasHeader("cache-control")
        /\ response.headers["cache-control"] =
              IF ServedAsset.content_type = "text/html"
              THEN as_header(options.html_cache_control)
              ELSE as_header(options.cache_control)

\* C6 happens: a 304 for a dynamic HTML asset carries the HTML policy while
\* the other policy is a different one
C6_Witness ==
    /\ BytesAvailable /\ ConditionalHit
    /\ call.dynamic
    /\ ServedAsset.content_type = "text/html"
    /\ options.html_cache_control = CacheControlNoCache
    /\ options.cache_control = CacheControlCustom("public")
    /\ response.status = 304
    /\ response.headers["cache-control"] = "no-cache"

---------------------------------------------------------------------------
(* Properties of supports_encoding (SpecEncoding) *)

NotWhitespace(ch) == ch \notin Whitespace

\* the probe's Accept-Encoding value with all whitespace removed
ProbeStripped == SelectSeq(probe.headers.accept_encoding.v, NotWhitespace)

\* the tokens: the maximal comma-free segments of the stripped value
ProbeTokens ==
    LET v == ProbeStripped
    IN {SubSeq(v, a, b) : <<a, b>> \in
          {ab \in (1..Len(v) + 1) \X (0..Len(v)) :
              /\ ab[1] <= ab[2] + 1
              /\ ab[1] = 1 \/ v[ab[1] - 1] = ","
              /\ ab[2] = Len(v) \/ v[ab[2] + 1] = ","
              /\ \A k \in ab[1]..ab[2] : v[k] # ","}}

\* token has the coding name and, if a ";q=" follows it, a quality string
\* other than "0"
TokenNames(token, name) ==
    \/ token = name
    \/ /\ Len(token) >= Len(name) + 3
       /\ SubSeq(token, 1, Len(name) + 3) = name \o <<";", "q", "=">>
       /\ Drop(token, Len(name) + 4) # <<"0">>

\* some token not excluded by its quality names the coding or "*"
ProbeListsCoding ==
    \E token \in ProbeTokens :
        TokenNames(token, probe.encoding) \/ TokenNames(token, <<"*">>)

\* the header value is text: no byte outside visible ASCII, space and tab
ProbeReadable ==
    \A i \in 1..Len(probe.headers.accept_encoding.v) :
        probe.headers.accept_encoding.v[i] \notin ObsText

\* C5 as stated: supports_encoding is true exactly when the header is
\* present and some token, after whitespace removal and splitting on
\* commas, whose quality is not exactly "0" names the coding or "*"
C5_AsStated ==
    probe.called =>
        (probe.result <=> (probe.headers.accept_encoding.some /\ ProbeListsCoding))

\* C5 amended: the same, for a header value that is readable as text; a
\* value holding a byte outside visible ASCII counts as absent
C5_SupportsEncoding ==
    probe.called =>
        (probe.result <=>
            /\ probe.headers.accept_encoding.some
            /\ ProbeReadable
            /\ ProbeListsCoding)

\* C5 happens: the wildcard of the test header accepts zstd, which the
\* header does not name
C5_Witness ==
    /\ probe.called
    /\ probe.headers.accept_encoding = Some(AeFull)
    /\ probe.encoding = ZstdCoding
    /\ probe.result

---------------------------------------------------------------------------
(* Properties of route composition (SpecRouting) *)

Served == pc = "serving" /\ call.via # "idle"

\* the manifest entries with the route
AssetsAt(route) == {i \in 1..Len(assets) : assets[i].route = route}

\* the option names the route of an asset in the manifest
NamesAsset(opt) == opt.some /\ AssetsAt(opt.v) # {}

DotHtml == <<".", "h", "t", "m", "l">>

IsHtmlRoute(route) ==
    Len(route) >= Len(DotHtml) /\ Drop(route, Len(route) - Len(DotHtml) + 1) = DotHtml

\* the path an asset is reached at: its route, or under enable_clean_url
\* an ".html" route without that suffix
OwnPath(route) ==
    IF options.enable_clean_url /\ IsHtmlRoute(route)
    THEN SubSeq(route, 1, Len(route) - Len(DotHtml))
    ELSE route

\* the alias sources that point at an asset of the manifest
AliasFroms ==
    {aliases[j][1] : j \in {k \in 1..Len(aliases) : AssetsAt(aliases[k][2]) # {}}}

\* the request went to the route's closure of an asset with that route
RoutedTo(route) ==
    /\ call.via = "route"
    /\ call.status = 200
    /\ ServedAsset.route = route

\* the request went to the fallback closure of the asset with that route
FellBackTo(route) ==
    /\ call.via = "fallback"
    /\ call.status = options.fallback_status
    /\ ServedAsset.route = route
    /\ FullResponse =>
          /\ response.status = options.fallback_status
          /\ response.headers["content-type"] = ServedAsset.content_type
          /\ response.headers["etag"] = ResolvedEtag
          /\ response.body \in {call.ar.bytes, call.ar.brotli_bytes, call.ar.gzip_bytes}

\* axum's answer when nothing matches: 404, no headers of an asset, no body
Plain404 ==
    /\ call.via = "none"
    /\ response.status = 404
    /\ response.body = <<>>
    /\ ~HasHeader("etag")

\* C7 as stated: with a fallback naming an asset, an unmatched path is
\* answered by that asset with fallback_status while the asset's own route
\* still answers 200; without a fallback an unmatched path answers 404
C7_AsStated ==
    Served =>
        /\ NamesAsset(options.fallback) =>
              /\ request.path \notin DOMAIN router.routes =>
                    FellBackTo(options.fallback.v)
              /\ request.path = options.fallback.v =>
                    RoutedTo(options.fallback.v)
        /\ (~NamesAsset(options.fallback) /\ request.path \notin DOMAIN router.routes) =>
              Plain404

\* C7 amended: the same, with 'the asset's own route' being the path it is
\* registered at (under enable_clean_url the route without ".html")
C7_Fallback ==
    Served =>
        /\ NamesAsset(options.fallback) =>
              /\ request.path \notin DOMAIN router.routes =>
                    FellBackTo(options.fallback.v)
              /\ request.path = OwnPath(options.fallback.v) =>
                    RoutedTo(options.fallback.v)
        /\ (~NamesAsset(options.fallback) /\ request.path \notin DOMAIN router.routes) =>
              Plain404

\* C7 happens: fallback_status 200, an unmatched path, answered 200 with
\* the fallback asset
C7_Witness ==
    /\ Served
    /\ options.fallback = Some(IndexHtml)
    /\ options.fallback_status = 200
    /\ request.path = Barfoo
    /\ call.via = "fallback"
    /\ ServedAsset.route = IndexHtml
    /\ response.status = 200
    /\ response.body = BigHtml

\* "/" holds the closure of the asset whose route is index_file, the one
\* into_router registers for that asset everywhere, with status 200
IndexServedAtRoot ==
    /\ RootPath \in DOMAIN router.routes
    /\ \E i \in AssetsAt(options.index_file.v) :
          router.routes[RootPath] = Handler(i, 200)
    /\ (Served /\ request.path = RootPath) => RoutedTo(options.index_file.v)

\* C8 as stated: "/" is served by the handler of the asset whose route is
\* index_file, the same as a GET to that asset; when index_file is None or
\* names no asset, "/" is not registered and answers 404
C8_AsStated ==
    pc = "serving" =>
        IF NamesAsset(options.index_file)
        THEN IndexServedAtRoot
        ELSE /\ RootPath \notin DOMAIN router.routes
             /\ (Served /\ request.path = RootPath) => Plain404

\* C8 amended: "/" is served by the handler of the asset whose route is
\* index_file, the same as a GET to that asset; when index_file is None or
\* names no asset, "/" is registered only if an alias starts at it, and
\* answers 404 unless such an alias or the fallback serves it
C8_IndexFile ==
    pc = "serving" =>
        IF NamesAsset(options.index_file)
        THEN IndexServedAtRoot
        ELSE /\ RootPath \in DOMAIN router.routes <=> RootPath \in AliasFroms
             /\ ( /\ Served /\ request.path = RootPath
                  /\ RootPath \notin AliasFroms
                  /\ ~NamesAsset(options.fallback) ) => Plain404

\* C8 happens: index_file set to /about.html, and "/" answers with that page
C8_Witness ==
    /\ Served
    /\ options.index_file = Some(AboutHtml)
    /\ request.path = RootPath
    /\ call.via = "route"
    /\ ServedAsset.route = AboutHtml
    /\ response.status = 200
    /\ response.body = SmallHtml

\* the alias pairs whose target is an asset of the manifest
LiveAliases == {j \in 1..Len(aliases) : AssetsAt(aliases[j][2]) # {}}

\* C9 as stated: every alias source is served by the same handler as its
\* target route, for any number of aliases onto one asset; the target stays
\* served; a path that is neither a route nor an alias source answers 404
C9_AsStated ==
    pc = "serving" =>
        /\ \A j \in LiveAliases :
              /\ aliases[j][1] \in DOMAIN router.routes
              /\ aliases[j][2] \in DOMAIN router.routes
              /\ router.routes[aliases[j][1]] = router.routes[aliases[j][2]]
        /\ ( /\ Served
             /\ AssetsAt(request.path) = {}
             /\ request.path \notin AliasFroms ) => Plain404

\* the assets the index_on_subdirectories rule applies to
SubdirectoryIndexes ==
    {i \in 1..Len(assets) :
        /\ options.index_on_subdirectories
        /\ options.index_file.some
        /\ Len(assets[i].route) > Len(options.index_file.v)
        /\ Drop(assets[i].route,
                Len(assets[i].route) - Len(options.index_file.v) + 1) =
              options.index_file.v}

\* the directory-style paths of those assets
SubdirectoryPaths ==
    {SubSeq(assets[i].route, 1, Len(assets[i].route) - Len(options.index_file.v)) :
        i \in SubdirectoryIndexes}

\* the paths some rule registers: each asset's own path, the live alias
\* sources, "/" under the index_file rule, and the directory-style paths
RegisteredPaths ==
    {OwnPath(assets[i].route) : i \in 1..Len(assets)}
        \cup AliasFroms
        \cup (IF NamesAsset(options.index_file) THEN {RootPath} ELSE {})
        \cup SubdirectoryPaths

\* C9 amended: every alias source is served by the handler registered at
\* the target asset's own path, with status 200, for any number of aliases
\* onto one asset; a path that is neither an asset's own path, nor an alias
\* source, nor "/" under the index_file rule, nor a directory-style path
\* under index_on_subdirectories goes to the fallback if one is configured
\* and answers 404 otherwise
C9_Aliases ==
    pc = "serving" =>
        /\ \A j \in LiveAliases :
              /\ aliases[j][1] \in DOMAIN router.routes
              /\ OwnPath(aliases[j][2]) \in DOMAIN router.routes
              /\ router.routes[aliases[j][1]] = router.routes[OwnPath(aliases[j][2])]
              /\ (Served /\ request.path = aliases[j][1]) => RoutedTo(aliases[j][2])
        /\ (Served /\ request.path \notin RegisteredPaths) =>
              IF NamesAsset(options.fallback)
              THEN FellBackTo(options.fallback.v)
              ELSE Plain404

\* C9 happens: two aliases onto /index.html, the second one requested
C9_Witness ==
    /\ Served
    /\ aliases = <<<<Foobar, IndexHtml>>, <<Baz, IndexHtml>>>>
    /\ request.path = Baz
    /\ call.via = "route"
    /\ ServedAsset.route = IndexHtml
    /\ response.status = 200
    /\ response.body = BigHtml

\* C10: with enable_clean_url every ".html" asset is registered at its
\* route without the suffix instead of at the dotted route, which then
\* answers 404 unless an alias or the fallback serves it; every other asset,
\* and every asset when enable_clean_url is false, is registered at its
\* unmodified route
C10_CleanUrl ==
    pc = "serving" =>
        \A i \in 1..Len(assets) :
            LET route == assets[i].route
                stripped == SubSeq(route, 1, Len(route) - Len(DotHtml))
            IN IF options.enable_clean_url /\ IsHtmlRoute(route)
               THEN /\ stripped \in DOMAIN router.routes
                    /\ router.routes[stripped] = Handler(i, 200)
                    /\ route \in DOMAIN router.routes => route \in AliasFroms
                    /\ (Served /\ request.path = stripped) =>
                          (RoutedTo(route) /\ call.asset = i)
                    /\ ( /\ Served /\ request.path = route
                         /\ route \notin AliasFroms
                         /\ ~NamesAsset(options.fallback) ) => Plain404
               ELSE /\ route \in DOMAIN router.routes
                    /\ router.routes[route] = Handler(i, 200)
                    /\ (Served /\ request.path = route) =>
                          (RoutedTo(route) /\ call.asset = i)

\* C10 happens: clean URLs on, /about answers 200 with the page
C10_Witness ==
    /\ Served
    /\ options.enable_clean_url
    /\ request.path = AboutClean
    /\ call.via = "route"
    /\ ServedAsset.route = AboutHtml
    /\ response.status = 200
    /\ response.body = SmallHtml

---------------------------------------------------------------------------
(* Subdirectory indexes (SpecRouting) *)

\* the assets whose route ends with the index_file suffix below the root
UnderIndexFile ==
    {i \in 1..Len(assets) :
        /\ options.index_file.some
        /\ Len(assets[i].route) > Len(options.index_file.v)
        /\ Drop(assets[i].route,
                Len(assets[i].route) - Len(options.index_file.v) + 1) =
              options.index_file.v}

\* the route of such an asset with the suffix stripped
Stripped(i) ==
    SubSeq(assets[i].route, 1, Len(assets[i].route) - Len(options.index_file.v))

\* the paths the other rules register
OtherPaths ==
    {OwnPath(assets[i].route) : i \in 1..Len(assets)}
        \cup AliasFroms
        \cup (IF NamesAsset(options.index_file) THEN {RootPath} ELSE {})

---------------------------------------------------------------------------
(* A dynamic asset whose source file cannot be read (SpecProtocol) *)

\* the answer to a request for a dynamic asset, given the file system the
\* request found: 404 and nothing of the asset when the file is missing;
\* the file's bytes read and answered under their own etag when it is there
DynamicAnswer(c, resp, fs) ==
    IF ~fs[assets[c.asset].path].some
    THEN /\ ~c.read.some
         /\ resp.status = 404
         /\ resp.body = <<>>
         /\ DOMAIN resp.headers = {"content-length"}
         /\ resp.headers["content-length"] = 0
    ELSE /\ c.read = fs[assets[c.asset].path]
         /\ resp.status \in {304, c.status}
         /\ "etag" \in DOMAIN resp.headers
         /\ resp.headers["etag"] = digest(fs[assets[c.asset].path].v)
         /\ "content-type" \in DOMAIN resp.headers
         /\ "cache-control" \in DOMAIN resp.headers

\* C12: a request for a dynamic asset whose source file is missing is
\* answered 404 with nothing of the asset (no ETag, Cache-Control or
\* Content-Type, no 304 whatever If-None-Match is, not the caller's fallback
\* status); every request, whatever failed before it, that finds the file
\* readable is answered from the bytes it read
C12_MissingSource ==
    [][ ( /\ call.via = "idle"
          /\ call'.via \in {"route", "fallback"}
          /\ ~assets[call'.asset].bytes.some ) =>
            DynamicAnswer(call', response', disk) ]_vars

\* C12 happens: the fallback asset's file is missing, the fallback status is
\* 200 and If-None-Match equals the manifest's (empty) etag; the answer is
\* 404
C12_Witness ==
    /\ HandlerRan
    /\ call.dynamic
    /\ ~call.read.some
    /\ call.via = "fallback"
    /\ call.status = 200
    /\ request.headers.if_none_match = Some(ServedAsset.etag)
    /\ response.status = 404
    /\ ~HasHeader("etag")

---------------------------------------------------------------------------
(* The shape of every response a handler returns (SpecProtocol) *)

AssetHeaders == {"content-type", "cache-control", "etag"}

\* the statuses a handler may return: 304, 404, and the status its closure
\* passes (200 on a route, fallback_status on the fallback)
AllowedStatuses ==
    {304, 404} \cup (IF call.via = "fallback" THEN {options.fallback_status} ELSE {200})

\* the headers of the response the handler returned, before the router
\* layer completes them
ProducedHeaders == DOMAIN call.produced.headers

\* Content-Length and Content-Encoding as response assembly sets them:
\* Content-Length on full responses only, Content-Encoding on the full
\* responses whose coding is br or gzip
AssemblyHeaders ==
    /\ "content-length" \in ProducedHeaders <=> FullResponse
    /\ "content-encoding" \in ProducedHeaders <=>
          (FullResponse /\ ExpectedCoding # "identity")

\* C13 as stated: every response of a handler has a status among 200 (or
\* fallback_status on the fallback), 304 and 404, and carries exactly
\* Content-Type, Cache-Control and ETag, plus Content-Length and
\* Content-Encoding under the conditions of response assembly
C13_AsStated ==
    HandlerRan =>
        /\ call.produced.status \in AllowedStatuses
        /\ ProducedHeaders \ {"content-length", "content-encoding"} = AssetHeaders
        /\ AssemblyHeaders

\* C13 amended: the same for every response built from the asset's bytes;
\* the 404 of a dynamic asset whose file could not be read carries no
\* header at all, and 404 is returned in that case only unless it is the
\* fallback status
C13_ResponseShape ==
    HandlerRan =>
        /\ call.produced.status \in AllowedStatuses
        /\ AssemblyHeaders
        /\ IF BytesAvailable
           THEN /\ ProducedHeaders \ {"content-length", "content-encoding"} =
                     AssetHeaders
                /\ call.produced.status \in {304, call.status}
           ELSE /\ ProducedHeaders = {}
                /\ call.produced.status = 404

\* C13 happens: a full fallback response with status 200 and a coding, all
\* five headers present
C13_Witness ==
    /\ HandlerRan
    /\ FullResponse
    /\ call.via = "fallback"
    /\ call.produced.status = 200
    /\ ProducedHeaders = AssetHeaders \cup {"content-length", "content-encoding"}

---------------------------------------------------------------------------
(* Properties of the indexing pipeline (SpecIndex) *)

RunIndexes == 1..Len(build.runs)

\* the list the n-th run returned
Listed(n) == build.runs[n].listed

\* the entries of the last walk that were indexed, in the order walked
WalkedRoutes ==
    SelectSeq([k \in 1..Len(build.walk) |-> RouteOf[build.walk[k].path]],
              LAMBDA r : \E k \in 1..Len(Listed(Len(build.runs))) :
                            Listed(Len(build.runs))[k].route = r)

\* C14: the list list_assets returns is in ascending order of route, for
\* every tree, in embed and in dynamic mode, whatever the order of the walk
C14_SortedByRoute ==
    \A n \in RunIndexes :
        \A i, j \in 1..Len(Listed(n)) :
            i < j => ~StrLess(Listed(n)[j].route, Listed(n)[i].route)

\* C14 happens: a tree indexed in embed and in dynamic mode, the last walk
\* yielding two indexed files in descending order of route
C14_Witness ==
    /\ Len(build.runs) = 2
    /\ build.runs[1].embed # build.runs[2].embed
    /\ Len(Listed(1)) >= 2
    /\ Len(Listed(2)) >= 2
    /\ StrLess(WalkedRoutes[2], WalkedRoutes[1])

\* the contents of the file of the tree with the path
SourceOf(path) == (CHOOSE e \in build.tree : e.path = path).bytes

\* the descriptor assets_to_code writes for an indexed file
Descriptor(d, embed) == asset_code(d, embed, SourceOf(d.path))

\* C15 as stated: in embed mode a descriptor with should_compress holds the
\* brotli output and is marked compressed only if that output is strictly
\* smaller than the original; otherwise its payload is the original bytes
\* and is_compressed is false
C15_AsStated ==
    \A n \in RunIndexes :
        build.runs[n].embed =>
            \A k \in 1..Len(Listed(n)) :
                Listed(n)[k].should_compress =>
                    IF Len(compress_brotli(SourceOf(Listed(n)[k].path)).v) <
                           Len(SourceOf(Listed(n)[k].path))
                    THEN Descriptor(Listed(n)[k], TRUE).is_compressed =>
                           Descriptor(Listed(n)[k], TRUE).bytes.v =
                               compress_brotli(SourceOf(Listed(n)[k].path)).v
                    ELSE /\ ~Descriptor(Listed(n)[k], TRUE).is_compressed
                         /\ Descriptor(Listed(n)[k], TRUE).bytes.v =
                               SourceOf(Listed(n)[k].path)

\* C16 as stated: two runs of the pipeline on the same tree with the same
\* embed switch return the same list (the same descriptors in the same
\* order), whatever order each walk yields the entries in
C16_AsStated ==
    (Len(build.runs) = 2 /\ build.runs[1].embed = build.runs[2].embed) =>
        Listed(1) = Listed(2)

\* the entry of the tree with the path
EntryAt(path) == CHOOSE e \in build.tree : e.path = path

\* the name of an entry: the last component of its path
FileName(path) == path[Len(path)]

\* an entry the pipeline is said to index: a regular file whose metadata
\* can be read, not empty, with an extension, and readable when embedded
Indexable(e, embed) ==
    /\ e.metadata
    /\ e.is_file
    /\ Len(e.bytes) > 0
    /\ Extension(FileName(e.path)).some
    /\ embed => e.readable

\* C18: in embed and in dynamic mode the list holds no directory, no file
\* of size 0 and no file without extension; a file whose extension the
\* MIME table does not know is listed as application/octet-stream; and
\* the skipped entries change nothing for the others: every indexable
\* file of the tree is listed exactly once, with the descriptor that
\* indexing it alone gives
C18_PerFileSkips ==
    \A n \in RunIndexes :
        /\ \A k \in 1..Len(Listed(n)) :
              /\ EntryAt(Listed(n)[k].path).is_file
              /\ Len(EntryAt(Listed(n)[k].path).bytes) > 0
              /\ Extension(FileName(Listed(n)[k].path)).some
              /\ ~MimeGuess(Extension(FileName(Listed(n)[k].path)).v).some =>
                    Listed(n)[k].content_type = "application/octet-stream"
        /\ \A e \in build.tree :
              Indexable(e, build.runs[n].embed) =>
                  \E k \in 1..Len(Listed(n)) :
                      <<Listed(n)[k]>> =
                          list_assets(<<e>>, build.runs[n].embed, build.debug)
        /\ Len(Listed(n)) =
              Cardinality({e \in build.tree : Indexable(e, build.runs[n].embed)})

\* C18 happens: a tree with a directory, an empty file and a file of
\* unknown extension was indexed in embed and in dynamic mode, and that
\* file is the one descriptor, of type application/octet-stream
C18_Witness ==
    /\ Len(build.runs) = 2
    /\ build.runs[1].embed # build.runs[2].embed
    /\ \E e \in build.tree : ~e.is_file
    /\ \E e \in build.tree : e.is_file /\ Len(e.bytes) = 0
    /\ \A n \in RunIndexes :
          /\ Len(Listed(n)) = 1
          /\ Listed(n)[1].content_type = "application/octet-stream"

\* C18 happens also for the other skips: a file without extension and a
\* file that cannot be read are left out in embed mode, the third is kept
C18_WitnessUnreadable ==
    /\ Len(build.runs) >= 1
    /\ build.runs[1].embed
    /\ \E e \in build.tree : e.is_file /\ ~Extension(FileName(e.path)).some
    /\ \E e \in build.tree : e.is_file /\ ~e.readable
    /\ Len(Listed(1)) = 1

\* the MIME types the specification calls compressible
CompressibleMime ==
    {"text/html", "text/css", "application/json", "text/javascript",
     "application/javascript", "application/xml", "text/xml", "image/svg+xml",
     "application/wasm"}

\* C24: in embed and in dynamic mode, debug or release, should_compress of
\* an indexed file is true exactly when its content type is compressible
\* and it is at least 128 bytes long; a file with should_compress false
\* carries no brotli output
C24_ShouldCompress ==
    \A n \in RunIndexes :
        \A k \in 1..Len(Listed(n)) :
            /\ Listed(n)[k].should_compress <=>
                  /\ Listed(n)[k].content_type \in CompressibleMime
                  /\ Len(SourceOf(Listed(n)[k].path)) >= 128
            /\ ~Listed(n)[k].should_compress =>
                  /\ ~Listed(n)[k].compressed_bytes.some
                  /\ ~Descriptor(Listed(n)[k], build.runs[n].embed).is_compressed

\* C24 happens: a style sheet of 127 bytes, one of 128 and an image of 128
\* were indexed in embed and in dynamic mode; only the second has
\* should_compress, in both
C24_Witness ==
    /\ Len(build.runs) = 2
    /\ build.runs[1].embed # build.runs[2].embed
    /\ \A n \in RunIndexes :
          /\ Len(Listed(n)) = 3
          /\ \E k \in 1..3 : Len(SourceOf(Listed(n)[k].path)) = 127
                              /\ Listed(n)[k].content_type = "text/css"
                              /\ ~Listed(n)[k].should_compress
          /\ \E k \in 1..3 : Len(SourceOf(Listed(n)[k].path)) = 128
                              /\ Listed(n)[k].content_type = "text/css"
                              /\ Listed(n)[k].should_compress
          /\ \E k \in 1..3 : Len(SourceOf(Listed(n)[k].path)) = 128
                              /\ Listed(n)[k].content_type = "image/jpeg"
                              /\ ~Listed(n)[k].should_compress

---------------------------------------------------------------------------
(* Properties of the store and of load! (SpecStore) *)

\* the groups of the store with the name, in the order of the store
Named(title) == SelectSeq(build.store, LAMBDA g : g.name = title)

\* the group is what was loaded: as many assets as the pipeline listed for
\* it, each with the route, path and etag of the listed one
LoadedFrom(g) ==
    /\ Len(assets) = Len(g.listed)
    /\ \A k \in 1..Len(assets) :
          /\ assets[k].route = g.listed[k].route
          /\ Tail(assets[k].path) = g.listed[k].path
          /\ assets[k].etag = g.listed[k].etag
          /\ assets[k] = Included(g.code[k], build.out_dir)

\* C19: load!() panics exactly when the store has no group, load!(title)
\* exactly when no group has that name or the first of that name is empty,
\* in both cases with no asset loaded and no router built; otherwise
\* MemoryServe holds the assets of the first group, or of the first group
\* of that name, all of them and no others
C19_LoadFailsFast ==
    /\ build.load # "" => pc \in {"panicked", "config"}
    /\ build.load # "" /\ pc = "panicked" => assets = <<>> /\ router = EmptyRouter
    /\ build.load = "load!()" =>
          /\ pc = "panicked" <=> build.store = <<>>
          /\ pc = "config" => LoadedFrom(build.store[1])
    /\ build.load = "load!(title)" =>
          /\ pc = "panicked" <=>
                \/ Named(build.title) = <<>>
                \/ Named(build.title)[1].listed = <<>>
          /\ pc = "config" => LoadedFrom(Named(build.title)[1])

\* C19 happens: load!(title) loaded the second group of the store, the
\* first of that name, while a later group of that name holds other assets
C19_Witness ==
    /\ build.load = "load!(title)"
    /\ pc = "config"
    /\ Len(build.store) = 3
    /\ build.store[1].name # build.title
    /\ build.store[2].name = build.title
    /\ build.store[3].name = build.title
    /\ build.store[3].listed # build.store[2].listed
    /\ assets # <<>>

\* C19 happens also the other way: load!() on an empty store and
\* load!(title) on a store whose first group of that name is empty
C19_WitnessNoGroup ==
    /\ build.load = "load!()"
    /\ build.script = "mod"
    /\ build.store = <<>>
    /\ pc = "panicked"

C19_WitnessEmptyGroup ==
    /\ build.load = "load!(title)"
    /\ Len(Named(build.title)) = 2
    /\ Named(build.title)[1].listed = <<>>
    /\ Named(build.title)[2].listed # <<>>
    /\ pc = "panicked"

\* what is loaded for a descriptor is what the pipeline produced for it:
\* etag, content type and flags of the listed asset, and as payload
\* nothing (dynamic), its brotli output, or the bytes of its source file
Reproduced(loaded, literal, fa, embed) ==
    /\ loaded.route = fa.route
    /\ loaded.etag = fa.etag
    /\ loaded.content_type = fa.content_type
    /\ loaded.is_compressed = fa.compressed_bytes.some
    /\ "should_compress" \in DOMAIN fa =>
          loaded.should_compress = fa.should_compress
    /\ loaded.bytes =
          IF ~embed THEN NoneBytes
          ELSE IF fa.compressed_bytes.some THEN Some(fa.compressed_bytes.v)
          ELSE Some(include_bytes(literal.path, build.out_dir))

GroupReproduced(g) ==
    \A k \in 1..Len(g.code) :
        Reproduced(Included(g.code[k], build.out_dir), g.code[k], g.listed[k],
                   g.embed)

\* C20 as stated: for every descriptor of every group of one build, what
\* is loaded from the store equals what the pipeline produced for it, also
\* when files share a file name or have the same contents
C20_AsStated == \A n \in 1..Len(build.store) : GroupReproduced(build.store[n])

\* the same for the stores load_names_directories writes, where the
\* compressed copies are named by etag
StoreReproducedByEtag ==
    build.script = "mod" => \A n \in 1..Len(build.store) : GroupReproduced(build.store[n])

\* a store of load_names_directories with two groups, release and embedded,
\* holding pages of the same file name and pages of the same contents
StoreReproducedByEtagWitness ==
    /\ build.script = "mod"
    /\ Len(build.store) >= 2
    /\ \E k, l \in 1..Len(build.store[1].code), m \in 1..Len(build.store[2].code) :
          /\ k # l
          /\ build.store[1].code[k].is_compressed
          /\ build.store[1].code[l].is_compressed
          /\ FileName(build.store[1].code[k].path) =
                FileName(build.store[1].code[l].path)
          /\ build.store[2].code[m].is_compressed
          /\ build.store[2].code[m].path # build.store[1].code[k].path
          /\ build.store[2].code[m].etag = build.store[1].code[k].etag

---------------------------------------------------------------------------
(* Properties of path_to_route (SpecRoute) *)

\* the punctuation of the allow-list
AllowedPunctuation ==
    {"/", "\\", "!", "*", "'", "(", ")", ";", ":", "@", "&", "=", "+", "$", ",",
     "?", "%", "[", "]"}

\* a character as the route is said to show it: literally when it is
\* unreserved or allow-listed, else every byte of it as %XX
Shown(c) ==
    IF c \in Unreserved \cup AllowedPunctuation THEN <<c>>
    ELSE PercentBytes(Utf8(c), 1)

RECURSIVE ShownFrom(_, _)
ShownFrom(str, k) ==
    IF k > Len(str) THEN <<>> ELSE Shown(str[k]) \o ShownFrom(str, k + 1)

\* C17 as stated: the route is "/" followed by the components joined with
\* "/", every character percent-encoded except the unreserved ones and the
\* allow-listed punctuation, which appear literally
C17_AsStated ==
    build.route.some =>
        build.route.v = <<"/">> \o ShownFrom(JoinComponents(build.file, 1), 1)

---------------------------------------------------------------------------
(* Properties of the handlers: embedded and dynamic assets (SpecProtocol) *)

\* the three forms into_router resolved for the asset the handler captured
RawForm == leaked[call.asset][1]
BrotliForm == leaked[call.asset][2]
GzipForm == leaked[call.asset][3]

\* C21: the handler reads the source file exactly when the asset has no
\* embedded payload, which is when its raw and brotli forms are both
\* empty; an asset with an embedded payload is not read from disk, and is
\* answered with its static etag from the forms resolved for it
C21_DynamicPath ==
    HandlerRan =>
        /\ call.dynamic <=> ~ServedAsset.bytes.some
        /\ call.dynamic <=> (RawForm = <<>> /\ BrotliForm = <<>>)
        /\ ServedAsset.bytes.some =>
              /\ ~call.read.some
              /\ call.ar.built
              /\ call.ar.etag = ServedAsset.etag
              /\ call.ar.bytes = RawForm
              /\ call.ar.brotli_bytes = BrotliForm
              /\ call.ar.gzip_bytes = GzipForm
              /\ response.headers["etag"] = ServedAsset.etag
              /\ response.body \in {<<>>, RawForm, BrotliForm, GzipForm}

\* C21 happens: an embedded page is answered in full from its embedded
\* bytes after its source file was rewritten on disk
C21_Witness ==
    /\ HandlerRan
    /\ ServedAsset.bytes.some
    /\ ServedAsset.path = "static/index.html"
    /\ disk["static/index.html"] = Some(EditedHtml)
    /\ response.status = 200
    /\ response.body = BigHtml

\* C21 happens also for the dynamic path: the page is read from disk
C21_WitnessDynamic ==
    /\ HandlerRan
    /\ call.dynamic
    /\ call.read = Some(EditedHtml)
    /\ response.body = EditedHtml

\* the assets of the manifest that carry a payload
Embedded == {i \in 1..Len(assets) : assets[i].bytes.some}

\* C22: for every embedded asset the router holds three forms: the raw
\* form is the brotli-decompressed payload when is_compressed and the
\* payload otherwise; the gzip form is the gzip of the raw form if
\* should_compress and enable_gzip, else empty; the brotli form is the
\* payload if should_compress and enable_brotli, else empty.  With
\* should_compress false both are empty and every full response for the
\* asset is the raw form without Content-Encoding
C22_ResolvedForms ==
    pc = "serving" =>
        /\ Len(leaked) = Len(assets)
        /\ \A i \in Embedded :
              /\ leaked[i][1] =
                    IF assets[i].is_compressed
                    THEN decompress_brotli(assets[i].bytes.v).v
                    ELSE assets[i].bytes.v
              /\ leaked[i][3] =
                    IF assets[i].should_compress /\ options.enable_gzip
                    THEN compress_gzip(leaked[i][1]).v
                    ELSE <<>>
              /\ leaked[i][2] =
                    IF assets[i].should_compress /\ options.enable_brotli
                    THEN assets[i].bytes.v
                    ELSE <<>>
              /\ ~assets[i].should_compress =>
                    /\ leaked[i][2] = <<>>
                    /\ leaked[i][3] = <<>>
                    /\ (HandlerRan /\ call.asset = i /\ response.status # 304) =>
                          /\ ~HasHeader("content-encoding")
                          /\ response.body = leaked[i][1]

\* C22 happens: a router with both codings enabled holds, for one embedded
\* asset, a raw form decompressed from its payload next to a gzip and a
\* brotli form, and an embedded asset with should_compress false was
\* served to a client that accepts both codings
C22_Witness ==
    /\ HandlerRan
    /\ options.enable_gzip /\ options.enable_brotli
    /\ \E i \in Embedded :
          /\ assets[i].is_compressed
          /\ leaked[i][1] # assets[i].bytes.v
          /\ leaked[i][2] # <<>>
          /\ leaked[i][3] # <<>>
    /\ ServedAsset.bytes.some
    /\ ~ServedAsset.should_compress
    /\ request.headers.accept_encoding = Some(AeFull)
    /\ response.status = 200

\* the encoding the claim says a dynamic request negotiates
Negotiated ==
    IF ServedAsset.should_compress /\ options.enable_brotli /\ Accepts(BROTLI_ENCODING)
    THEN "br"
    ELSE IF ServedAsset.should_compress /\ options.enable_gzip /\ Accepts(GZIP_ENCODING)
    THEN "gzip"
    ELSE "none"

\* the handler took the dynamic path and its read succeeded
DynamicServed == HandlerRan /\ call.dynamic /\ call.read.some

\* C23: a dynamic request compresses what it read at most once: at most
\* one of the brotli and gzip forms is non-empty, it is the compression
\* of the bytes read in the negotiated encoding, and a response that is
\* not a 304 carries exactly that encoding
C23_CompressOnce ==
    DynamicServed =>
        /\ call.ar.brotli_bytes = <<>> \/ call.ar.gzip_bytes = <<>>
        /\ call.ar.bytes = call.read.v
        /\ Negotiated = "br" =>
              /\ call.ar.brotli_bytes = compress_brotli(call.read.v).v
              /\ call.ar.brotli_bytes # <<>>
              /\ call.ar.gzip_bytes = <<>>
        /\ Negotiated = "gzip" =>
              /\ call.ar.gzip_bytes = compress_gzip(call.read.v).v
              /\ call.ar.gzip_bytes # <<>>
              /\ call.ar.brotli_bytes = <<>>
        /\ Negotiated = "none" =>
              /\ call.ar.brotli_bytes = <<>>
              /\ call.ar.gzip_bytes = <<>>
        /\ response.status # 304 =>
              /\ Negotiated = "br" =>
                    /\ HasHeader("content-encoding")
                    /\ response.headers["content-encoding"] = BROTLI_ENCODING
                    /\ response.body = call.ar.brotli_bytes
              /\ Negotiated = "gzip" =>
                    /\ HasHeader("content-encoding")
                    /\ response.headers["content-encoding"] = GZIP_ENCODING
                    /\ response.body = call.ar.gzip_bytes
              /\ Negotiated = "none" =>
                    /\ ~HasHeader("content-encoding")
                    /\ response.body = call.read.v

\* C23 happens: both codings are enabled, the client refuses br and takes
\* gzip, and the page read from disk is sent gzipped, no brotli form made
C23_Witness ==
    /\ DynamicServed
    /\ options.enable_brotli /\ options.enable_gzip
    /\ request.headers.accept_encoding = Some(AeNoBr)
    /\ call.ar.brotli_bytes = <<>>
    /\ response.status = 200
    /\ response.headers["content-encoding"] = GZIP_ENCODING

\* C23 happens also with br negotiated, and with a 304
C23_WitnessBrotli ==
    /\ DynamicServed
    /\ Negotiated = "br"
    /\ response.status = 200
    /\ call.ar.gzip_bytes = <<>>

C23_WitnessNotModified ==
    /\ DynamicServed
    /\ Negotiated = "br"
    /\ response.status = 304

\* the route of every file name of the model, computed once
RouteOfFile == [f \in FilePaths |-> path_to_route(f)]

\* C25 as stated: path_to_route is injective under one root, no other
\* file path has the route of this one
C25_AsStated ==
    build.route.some =>
        \A g \in FilePaths : g # build.file => RouteOfFile[g] # build.route.v

\* the body an identity response for the served asset carries: its raw
\* form, or the bytes this request read
IdentityBody == IF ServedAsset.bytes.some THEN RawForm ELSE call.read.v

\* C26 as stated: a response with Content-Encoding br has a body that
\* decodes as brotli to the body of the identity response for the asset,
\* one with Content-Encoding gzip has the gzip encoding of those bytes,
\* for every build and every option set
C26_AsStated ==
    (HandlerRan /\ HasHeader("content-encoding")) =>
        /\ response.headers["content-encoding"] = BROTLI_ENCODING =>
              decompress_brotli(response.body) = Some(IdentityBody)
        /\ response.headers["content-encoding"] = GZIP_ENCODING =>
              response.body = compress_gzip(IdentityBody).v

\* the same for the assets whose payload is stored as the flags say:
\* dynamic ones, and embedded ones with is_compressed or without
\* should_compress
EncodedBodyWhereCompressed ==
    (HandlerRan /\ ServedAsset.bytes.some /\ ServedAsset.should_compress
        /\ ~ServedAsset.is_compressed)
    \/ C26_AsStated

\* a response with Content-Encoding br whose body decodes to the page
EncodedBodyWitness ==
    /\ HandlerRan
    /\ ServedAsset.is_compressed
    /\ HasHeader("content-encoding")
    /\ response.headers["content-encoding"] = BROTLI_ENCODING
    /\ decompress_brotli(response.body) = Some(BigHtml)

---------------------------------------------------------------------------
(* Properties of route composition without aliases (SpecSite) *)

\* the routes of the manifest are pairwise distinct
DistinctRoutes ==
    \A i, j \in 1..Len(assets) : assets[i].route = assets[j].route => i = j

NoConflictUnlessBoth ==
    ( /\ DistinctRoutes
      /\ aliases = <<>>
      /\ ~( /\ options.index_on_subdirectories
            /\ options.enable_clean_url
            /\ options.index_file = Some(IndexHtml) ) )
    => (pc # "panicked" /\ ~router.panicked)

\* a router built with both options on for an index_file no subdirectory
\* page ends with, and one built with one of them: both serve /docs
NoConflictWitness ==
    /\ pc = "serving"
    /\ options.index_on_subdirectories
    /\ ~options.enable_clean_url
    /\ call.via = "route"
    /\ request.path = DocsPath
    /\ ServedAsset.route = DocsIndexHtml

---------------------------------------------------------------------------
(* Properties of content negotiation: quality zero (SpecProtocol) *)

\* the ways a quality value of zero is written
ZeroQualities ==
    {<<"0">>, <<"0", ".">>, <<"0", ".", "0">>, <<"0", ".", "0", "0">>,
     <<"0", ".", "0", "0", "0">>}

\* the tokens of the request's Accept-Encoding value
RequestTokens ==
    IF request.headers.accept_encoding.some
    THEN SplitComma(SelectSeq(request.headers.accept_encoding.v, NotWhitespace),
                    1, <<>>)
    ELSE <<>>

\* the request lists the coding with a quality value of zero
Refuses(coding) ==
    \E k \in 1..Len(RequestTokens) : \E q \in ZeroQualities :
        RequestTokens[k] = coding \o <<";", "q", "=">> \o q

\* C28 as stated: a coding the client lists with a quality value of zero
\* is never the Content-Encoding of the response, whatever other tokens
\* the header holds
C28_AsStated ==
    (pc = "serving" /\ call.via # "idle" /\ HasHeader("content-encoding")) =>
        ~Refuses(response.headers["content-encoding"])

\* the same for a header that writes the zero as "0" and has no "*"
RefusedWhenExactZero ==
    ( /\ pc = "serving" /\ call.via # "idle" /\ HasHeader("content-encoding")
      /\ \A k \in 1..Len(RequestTokens) :
            /\ RequestTokens[k] # <<"*">>
            /\ \A q \in ZeroQualities \ {<<"0">>} :
                  RequestTokens[k] #
                      response.headers["content-encoding"] \o <<";", "q", "=">> \o q )
    => ~Refuses(response.headers["content-encoding"])

\* "br;q=0, gzip" answered with gzip although brotli is enabled
RefusedWitness ==
    /\ HandlerRan
    /\ options.enable_brotli
    /\ request.headers.accept_encoding = Some(AeNoBr)
    /\ call.ar.brotli_bytes # <<>>
    /\ HasHeader("content-encoding")
    /\ response.headers["content-encoding"] = GZIP_ENCODING

---------------------------------------------------------------------------
(* Properties of the two index modes compared (SpecProtocol) *)

\* the source file of the served asset as the build script indexed it
IndexedFile == ServedAsset.path :> Some(SourceFiles[call.asset].bytes)

\* the request was served from the file as indexed: from the embedded
\* payload, or from a read that returned the indexed bytes
FileUnchanged ==
    ServedAsset.bytes.some \/ call.read = IndexedFile[ServedAsset.path]

\* the served asset as load_directory_with_embed indexes it in the given
\* mode and profile
Twin(embed, debug) == Manifest(embed, debug)[call.asset]

\* the response for the asset with the forms leak_bytes resolved, to the
\* request of this state with the caller status of this state
TwinResponse(asset, forms) ==
    set_content_length(
        handler(asset, request.headers, call.status, forms[1], forms[2], forms[3],
                options, IndexedFile).response)

\* the response the other index mode gives to the same request
ResponseIn(embed, debug) ==
    TwinResponse(Twin(embed, debug), leak_bytes(Twin(embed, debug), options))

\* inverse of compress_gzip: None when the input is not a gzip stream
GzipDecoded(input) ==
    IF Len(input) >= 2 /\ input[1] = 31
          /\ RunsWellFormed(SubSeq(input, 2, Len(input) - 1))
    THEN Some(Expand(SubSeq(input, 2, Len(input) - 1), 1, (Len(input) - 2) \div 2))
    ELSE NoneBytes

\* the bytes a client decodes from the body by the Content-Encoding
Decoded(resp) ==
    IF "content-encoding" \notin DOMAIN resp.headers THEN Some(resp.body)
    ELSE IF resp.headers["content-encoding"] = BROTLI_ENCODING
    THEN decompress_brotli(resp.body)
    ELSE IF resp.headers["content-encoding"] = GZIP_ENCODING
    THEN GzipDecoded(resp.body)
    ELSE NoneBytes

ComparedHeaders == {"content-type", "cache-control", "etag", "content-encoding"}

\* same status, same compared headers, bodies that decode to the same bytes
Equivalent(a, b) ==
    /\ a.status = b.status
    /\ \A h \in ComparedHeaders :
          /\ (h \in DOMAIN a.headers) = (h \in DOMAIN b.headers)
          /\ h \in DOMAIN a.headers => a.headers[h] = b.headers[h]
    /\ Decoded(a).some
    /\ Decoded(a) = Decoded(b)

\* C29 as stated: for an unchanged file, the same options, request
\* headers and caller status, the response of the asset indexed in embed
\* mode and the response of it indexed in dynamic mode are equivalent
C29_AsStated ==
    (HandlerRan /\ FileUnchanged) =>
        \A debug \in BOOLEAN :
            Equivalent(response, ResponseIn(~ServedAsset.bytes.some, debug))

\* the same when the embedded payload is stored as the flags say (brotli
\* when should_compress, see C26)
EquivalentWhereCompressed ==
    (HandlerRan /\ FileUnchanged) =>
        \A debug \in BOOLEAN :
            \/ \E e \in {Twin(TRUE, debug), ServedAsset} :
                  e.bytes.some /\ e.should_compress /\ ~e.is_compressed
            \/ Equivalent(response, ResponseIn(~ServedAsset.bytes.some, debug))

\* a dynamic asset answered with a brotli body, its embedded twin
\* holding the brotli form
EquivalentWitness ==
    /\ HandlerRan
    /\ FileUnchanged
    /\ ~ServedAsset.bytes.some
    /\ Twin(TRUE, FALSE).is_compressed
    /\ HasHeader("content-encoding")
    /\ response.headers["content-encoding"] = BROTLI_ENCODING
    /\ ResponseIn(TRUE, FALSE).body = response.body

---------------------------------------------------------------------------
(* Properties of concurrent dynamic requests (SpecConcurrent) *)

\* worker threads whose dynamic_handler has returned
Finished == {t \in Tasks : tasks[t].at = "done"}

\* the response of task is made of the bytes that task's one read
\* returned: etag and body of a full response, the test behind a 304
FromOwnRead(task) ==
    /\ task.read.some => task.read.v = task.buf
    /\ task.response.status = 200 =>
          /\ task.read.some
          /\ "etag" \in DOMAIN task.response.headers
          /\ task.response.headers["etag"] = digest(task.read.v)
          /\ Decoded(task.response) = task.read
    /\ task.response.status = 304 =>
          /\ task.read.some
          /\ task.headers.if_none_match = Some(digest(task.read.v))
    /\ task.response.status \notin {200, 304} => ~task.read.some

\* C30: under every interleaving of concurrent requests for one asset
\* with changes of its source file, each finished request has the ETag
\* of the bytes its body encodes, answers 304 only when If-None-Match is
\* the hash of the bytes it read itself, and two requests with the same
\* headers and the same bytes read have the same response, whatever the
\* other requests read or compressed
C30_SingleRead ==
    /\ \A t \in Finished : FromOwnRead(tasks[t])
    /\ \A t, u \in Finished :
          (tasks[t].headers = tasks[u].headers /\ tasks[t].read = tasks[u].read)
              => tasks[t].response = tasks[u].response

\* two requests in flight at once over a file that changed: one answered
\* with a brotli body of a read torn between two versions of the file,
\* the other with 304 for the new version
C30_Witness ==
    \E t, u \in Finished :
        /\ tasks[t].response.status = 200
        /\ tasks[t].read.v \notin {BigHtml, EditedHtml}
        /\ Len(tasks[t].read.v) > ChunkSize
        /\ "content-encoding" \in DOMAIN tasks[t].response.headers
        /\ tasks[u].response.status = 304
        /\ tasks[u].read = Some(EditedHtml)

\* a request whose read failed after the file was opened, next to one
\* that read the whole file
C30_WitnessReadError ==
    \E t, u \in Finished :
        /\ tasks[t].response.status = 404
        /\ tasks[t].buf # <<>>
        /\ tasks[u].response.status = 200
        /\ tasks[u].read = Some(BigHtml)

====
